---- MODULE Spec2Model ----
(***************************************************************************)
(* A model of rsix: path-argument conversion (src/path/arg.rs, fs/at.rs),  *)
(* the /proc trust-chain validation with its once-only caches              *)
(* (src/io/procfs.rs), the timerfd calls (src/time/timerfd.rs), the        *)
(* time64 fallbacks of 32-bit targets and the mmap, accessat, readlinkat,  *)
(* socket-address, non-at and is_read_write wrappers                       *)
(* (src/imp/linux_raw/syscalls.rs, src/imp/libc/net/addr.rs).              *)
(***************************************************************************)
EXTENDS Integers, Sequences, FiniteSets, TLC

VARIABLES
    \* ---- path conversion (src/path/arg.rs, src/fs/at.rs) ----
    path_p,        \* the logical path: a sequence of bytes, no terminator
    path_arg,      \* the Arg value built from path_p: [repr, data]
    path_q,        \* the second logical path of a two-path operation
    path_arg2,     \* the Arg value built from path_q
    path_fres,     \* what the continuation / the kernel call returns
    path_pc,       \* "ready" | "done"
    path_op,       \* the operation that ran
    path_trace,    \* continuation invocations and kernel calls, in order
    path_result    \* what the operation returned

pathVars == <<path_p, path_arg, path_q, path_arg2, path_fres, path_pc,
              path_op, path_trace, path_result>>

VARIABLES
    \* ---- /proc validation and its caches (src/io/procfs.rs) ----
    feature,       \* "std" (OnceCell) | "no_std_demo" (OnceBox)
    ids,           \* [uid, gid]: what getuid() and getgid() return
    cell,          \* the statics PROC, PROC_SELF, PROC_SELF_FD
    lock,          \* std: the thread running a cell's initializer, or 0
    fds,           \* the descriptor table, by descriptor number
    double_close,  \* a descriptor number was closed while not open
    stack,         \* per thread: the frames of its nested calls
    ret            \* per thread: how its last proc_self_fd call ended

procVars == <<feature, ids, cell, lock, fds, double_close, stack, ret>>

VARIABLES
    \* ---- one run of a cell's closure on a given environment ----
    val_in,        \* [k, opened, proc_stat, id]: the closure and its inputs
    val_pc,        \* "idle" | "ready" | "done"
    val_out        \* what the closure returned

valVars == <<val_in, val_pc, val_out>>

VARIABLES
    \* ---- timerfd: the kernel's timers, seen through the three calls ----
    tfd_now,       \* the monotonic clock, a Timespec
    tfd_timers,    \* per descriptor: the kernel timer behind it
    tfd_set,       \* per descriptor: the last setting a caller installed
    tfd_last       \* the last call made and what it returned

timerVars == <<tfd_now, tfd_timers, tfd_set, tfd_last>>

VARIABLES
    \* ---- one time64 operation of a 32-bit target on a given kernel ----
    t64_in,        \* [op, id, req, flags, k]: the operation, its arguments
                   \* and what the kernel answers to each call
    t64_pc,        \* "idle" | "ready" | "done"
    t64_out        \* the calls the operation issued and what it returned

t64Vars == <<t64_in, t64_pc, t64_out>>

VARIABLES
    \* ---- one call of a wrapper on a given kernel and file system ----
    sys_in,        \* [op, ...]: the operation, its arguments and what the
                   \* kernel answers
    sys_pc,        \* "idle" | "ready" | "loop" | "bound" | "done"
    sys_buffer,    \* the buffer of a wrapper that loops; the name the
                   \* kernel keeps for a bound socket
    sys_out        \* the kernel calls issued and what the wrapper returned

sysVars == <<sys_in, sys_pc, sys_buffer, sys_out>>

timeVars == <<timerVars, t64Vars, sysVars>>

vars == <<pathVars, procVars, valVars, timeVars>>

-----------------------------------------------------------------------------
(* Results, io::Result<T>. *)

Ok(v) == [tag |-> "Ok", val |-> v]

Err(e) == [tag |-> "Err", val |-> e]

Panic == [tag |-> "Panic", val |-> "panic"]

-----------------------------------------------------------------------------
(* Bounds of the path model. *)

\* lengths 0..MaxShort are tried
MaxShort == 2

\* lengths SIZE-MaxNear..SIZE+MaxNear are tried
MaxNear == 2

\* with_c_str: const SIZE: usize = 256
SIZE == 256

PathLens == (0..MaxShort) \cup ((SIZE - MaxNear)..(SIZE + MaxNear))

\* A non-NUL byte for position i.
Fill(i) == IF i % 4 = 0 THEN 47 ELSE 97 + (i % 3)

\* The byte string of length n with a NUL at position z (none when z = 0).
Bytes(n, z) == [i \in 1..n |-> IF i = z THEN 0 ELSE Fill(i)]

PathInputs == {Bytes(n, z) : n \in PathLens, z \in {0, 1}} \cup
              {Bytes(n, (n + 1) \div 2) : n \in PathLens \ {0}} \cup
              {Bytes(n, n) : n \in PathLens \ {0}}

\* The second path of the two-path operations.
PathInputs2 == {Bytes(n, z) : n \in {1, SIZE}, z \in {0, 1}}

HasNul(bytes) == \E i \in 1..Len(bytes) : bytes[i] = 0

\* Outcomes of the continuation (or of the kernel call it makes).
ContResults == {Ok("()"), Err("NOENT"), Err("INVAL")}

-----------------------------------------------------------------------------
(* The standard library's C strings, as arg.rs uses them. *)

\* memchr(0, s): the index of the first NUL of s, 0 when there is none.
FirstNul(s) ==
    LET idx == {i \in 1..Len(s) : s[i] = 0}
    IN  IF idx = {} THEN 0 ELSE CHOOSE i \in idx : \A j \in idx : i <= j

\* CString::new(bytes): fails on any NUL, else appends the terminator.
CString_new(bytes) ==
    IF FirstNul(bytes) # 0 THEN Err("NulError") ELSE Ok(bytes \o <<0>>)

\* CStr::from_bytes_with_nul(s): s must end in its one and only NUL.
CStr_from_bytes_with_nul(s) ==
    LET pos == FirstNul(s)
    IN  IF pos = 0 THEN Err("NotNulTerminated")
        ELSE IF pos = Len(s) THEN Ok(s)
        ELSE Err("InteriorNul")

-----------------------------------------------------------------------------
(* An effect: what a call did (its trace) and what it returned. *)

Effect(trace, result) == [trace |-> trace, result |-> result]

\* The Arg representations.
BorrowedBytes == {"&str", "&[u8]", "&OsStr", "&Path"}

OwnedBytes == {"String", "Vec<u8>", "OsString", "PathBuf"}

CStrings == {"&CStr", "CString"}

Reprs == BorrowedBytes \cup OwnedBytes \cup CStrings

\* The caller's value of representation repr that holds the logical path p.
\* A CStr or CString holds the bytes with their terminator, and exists only
\* for a NUL-free p.
MakeArg(repr, p) ==
    [repr |-> repr, data |-> IF repr \in CStrings THEN p \o <<0>> ELSE p]

\* A continuation F: FnOnce(&CStr) -> io::Result<T>, as the closure it is:
\* the caller's own closure, which returns fres;
UserClosure(fres) == [closure |-> "user", fres |-> fres]

\* |old_path| new_path.into_with_c_str(|new_path| syscall(old_path, new_path)),
\* the outer closure of a two-path operation;
OuterClosure(name, new_path, fres) ==
    [closure |-> "outer", name |-> name, new_path |-> new_path,
     fres |-> fres]

\* |new_path| syscall(old_path, new_path), its inner closure, which has
\* captured the converted old path.
InnerClosure(name, old_cstr, fres) ==
    [closure |-> "inner", name |-> name, old_cstr |-> old_cstr,
     fres |-> fres]

\* imp::syscalls::<name>(.., paths ..): the kernel call.
Syscall(name, paths, fres) == Effect(<<[ev |-> name, args |-> paths]>>, fres)

RECURSIVE CallClosure(_, _)
RECURSIVE with_c_str_slow_path(_, _)
RECURSIVE with_c_str(_, _)
RECURSIVE into_with_c_str(_, _)

\* fn with_c_str_slow_path(bytes, f)
with_c_str_slow_path(bytes, f) ==
    LET c == CString_new(bytes)
    IN  IF c.tag = "Err" THEN Effect(<<>>, Err("INVAL"))
        ELSE CallClosure(f, c.val)

\* with_c_str, as if the inline buffer were trusted to hold a C string
\* (from_bytes_with_nul_unchecked): a NUL inside the bytes goes unnoticed.
with_c_str_unchecked(bytes, f) ==
    IF Len(bytes) >= SIZE
    THEN with_c_str_slow_path(bytes, f)
    ELSE CallClosure(f, bytes \o <<0>>)

\* with_c_str, with the threshold test written > instead of >=.
with_c_str_threshold(bytes, f) ==
    IF Len(bytes) > SIZE
    THEN with_c_str_slow_path(bytes, f)
    ELSE IF Len(bytes) + 1 > SIZE THEN Effect(<<>>, Panic)
    ELSE CallClosure(f, bytes \o <<0>>)

\* fn with_c_str(bytes, f)
with_c_str(bytes, f) ==
    IF Len(bytes) >= SIZE
    THEN with_c_str_slow_path(bytes, f)
    ELSE LET buffer == [i \in 1..SIZE |->
                           IF i <= Len(bytes) THEN bytes[i] ELSE 0]
         IN  \* buffer[..bytes.len()] and buffer[..=bytes.len()] are
             \* bounds-checked slices
             IF Len(bytes) + 1 > SIZE
             THEN Effect(<<>>, Panic)
             ELSE LET c == CStr_from_bytes_with_nul(
                               SubSeq(buffer, 1, Len(bytes) + 1))
                  IN  IF c.tag = "Err" THEN Effect(<<>>, Err("INVAL"))
                      ELSE CallClosure(f, c.val)

\* <repr as Arg>::into_with_c_str(self, f)
into_with_c_str(arg, f) ==
    IF arg.repr \in BorrowedBytes THEN with_c_str(arg.data, f)
    ELSE IF arg.repr \in OwnedBytes
    THEN LET c == CString_new(arg.data)
         IN  IF c.tag = "Err" THEN Effect(<<>>, Err("INVAL"))
             ELSE CallClosure(f, c.val)
    ELSE CallClosure(f, arg.data)

\* f(cstr): run the closure on the C string.
CallClosure(f, cstr) ==
    IF f.closure = "user"
    THEN Effect(<<[ev |-> "f", args |-> <<cstr>>]>>, f.fres)
    ELSE IF f.closure = "outer"
    THEN into_with_c_str(f.new_path, InnerClosure(f.name, cstr, f.fres))
    ELSE Syscall(f.name, <<f.old_cstr, cstr>>, f.fres)

\* <repr as Arg>::into_c_str(self)
into_c_str(arg) ==
    IF arg.repr = "&CStr" THEN Ok([cow |-> "Borrowed", bytes |-> arg.data])
    ELSE IF arg.repr = "CString"
    THEN Ok([cow |-> "Owned", bytes |-> arg.data])
    ELSE LET c == CString_new(arg.data)
         IN  IF c.tag = "Err" THEN Err("INVAL")
             ELSE Ok([cow |-> "Owned", bytes |-> c.val])

\* as_cow_c_str, with the owned byte strings taken to be terminated already.
as_cow_c_str_terminated(arg) ==
    IF arg.repr \in CStrings THEN Ok([cow |-> "Borrowed", bytes |-> arg.data])
    ELSE LET c == IF arg.repr \in OwnedBytes
                  THEN CStr_from_bytes_with_nul(arg.data)
                  ELSE CString_new(arg.data)
         IN  IF c.tag = "Err" THEN Err("INVAL")
             ELSE Ok([cow |-> "Owned", bytes |-> c.val])

\* <repr as Arg>::as_cow_c_str(&self)
as_cow_c_str(arg) ==
    IF arg.repr \in CStrings THEN Ok([cow |-> "Borrowed", bytes |-> arg.data])
    ELSE LET c == CString_new(arg.data)
         IN  IF c.tag = "Err" THEN Err("INVAL")
             ELSE Ok([cow |-> "Owned", bytes |-> c.val])

\* fs::renameat(old_dirfd, old_path, new_dirfd, new_path)
renameat(old_path, new_path, fres) ==
    into_with_c_str(old_path, OuterClosure("renameat", new_path, fres))

\* fs::linkat(old_dirfd, old_path, new_dirfd, new_path, flags)
linkat(old_path, new_path, fres) ==
    into_with_c_str(old_path, OuterClosure("linkat", new_path, fres))

\* fs::symlinkat(old_path, new_dirfd, new_path)
symlinkat(old_path, new_path, fres) ==
    into_with_c_str(old_path, OuterClosure("symlinkat", new_path, fres))

-----------------------------------------------------------------------------
(* /proc validation: the checks of src/io/procfs.rs.                       *)

\* Mode::IFMT
IFMT == 61440

\* Mode::IFDIR
IFDIR == 16384

\* Mode::IFREG
IFREG == 32768

\* const PROC_ROOT_INO: u64 = 1
PROC_ROOT_INO == 1

\* Uid::ROOT, Gid::ROOT
ROOT == 0

RECURSIVE BitAnd(_, _)
\* a & b on unsigned integers
BitAnd(a, b) ==
    IF a = 0 \/ b = 0 THEN 0
    ELSE (a % 2) * (b % 2) + 2 * BitAnd(a \div 2, b \div 2)

\* !m, on the low 31 bits: the operand it meets is masked with 0o777
BitNot(m) == 2147483647 - m

\* a device number: its major and minor parts
MakeDev(ma, mi) == [major |-> ma, minor |-> mi]

\* fs::major(dev)
major(dev) == dev.major

Kinds == {"Proc", "Pid", "Fd"}

\* What fstat can report for an opened entry.
Stats ==
    [st_mode  : {IFDIR + 365, IFDIR + 320, IFDIR + 493, IFREG + 365},
     st_ino   : {PROC_ROOT_INO, 2},
     st_dev   : {MakeDev(0, 5), MakeDev(0, 6), MakeDev(8, 5)},
     st_uid   : {ROOT, 1000},
     st_gid   : {ROOT, 1000},
     st_nlink : {1, 2, 3}]

\* An opened entry, as the outcomes of the three calls made on it.
Entries ==
    [fstat    : {Err("IO")} \cup {Ok(s) : s \in {st \in Stats :
                     st.st_uid = 1000 => st.st_gid = 1000}},
     fstatfs  : {Err("IO"), Ok("PROC_SUPER_MAGIC"), Ok("TMPFS_MAGIC")},
     renameat : {Err("XDEV"), Err("BUSY"), Err("ACCES"), Ok("()")}]

NoStat ==
    [st_mode |-> 0, st_ino |-> 0, st_dev |-> MakeDev(0, 0), st_uid |-> 0,
     st_gid |-> 0, st_nlink |-> 0]

\* Option<&Stat>
None == [some |-> FALSE, stat |-> NoStat]

Some(stat) == [some |-> TRUE, stat |-> stat]

\* fn is_mountpoint(file) -> bool; unwrap_err and the last arm panic
is_mountpoint(entry) ==
    LET r == entry.renameat
    IN  IF r.tag = "Ok" THEN Panic
        ELSE IF r.val = "XDEV" THEN Ok(TRUE)
        ELSE IF r.val = "BUSY" THEN Ok(FALSE)
        ELSE Panic

\* check_procfs, with fstatfs(&file).unwrap() in place of fstatfs(&file)?.
check_procfs_unwrap(entry) ==
    LET statfs == entry.fstatfs
    IN  IF statfs.tag = "Err" THEN Panic
        ELSE IF statfs.val # "PROC_SUPER_MAGIC" THEN Err("NOTSUP")
        ELSE Ok("()")

\* fn check_procfs(file)
check_procfs(entry) ==
    LET statfs == entry.fstatfs
    IN  IF statfs.tag = "Err" THEN statfs
        ELSE IF statfs.val # "PROC_SUPER_MAGIC" THEN Err("NOTSUP")
        ELSE Ok("()")

\* check_proc_root, without the test that "/proc" is a mount point.
check_proc_root_no_mount(entry, stat) ==
    IF BitAnd(stat.st_mode, IFMT) # IFDIR THEN Panic
    ELSE IF stat.st_ino # PROC_ROOT_INO THEN Err("NOTSUP")
    ELSE IF major(stat.st_dev) # 0 THEN Err("NOTSUP")
    ELSE Ok("()")

\* fn check_proc_root(entry, stat)
check_proc_root(entry, stat) ==
    IF BitAnd(stat.st_mode, IFMT) # IFDIR THEN Panic
    ELSE IF stat.st_ino # PROC_ROOT_INO THEN Err("NOTSUP")
    ELSE IF major(stat.st_dev) # 0 THEN Err("NOTSUP")
    ELSE LET m == is_mountpoint(entry)
         IN  IF m.tag = "Panic" THEN Panic
             ELSE IF ~m.val THEN Err("NOTSUP")
             ELSE Ok("()")

\* fn check_proc_nonroot(stat, proc_stat)
check_proc_nonroot(stat, proc_stat) ==
    IF stat.st_ino = PROC_ROOT_INO THEN Err("NOTSUP")
    ELSE IF ~proc_stat.some THEN Panic
    ELSE IF stat.st_dev # proc_stat.stat.st_dev THEN Err("NOTSUP")
    ELSE Ok("()")

\* check_proc_subdir, without the test that the entry is no mount point.
check_proc_subdir_no_mount(entry, stat, proc_stat) ==
    IF BitAnd(stat.st_mode, IFMT) # IFDIR THEN Panic
    ELSE check_proc_nonroot(stat, proc_stat)

\* fn check_proc_subdir(entry, stat, proc_stat)
check_proc_subdir(entry, stat, proc_stat) ==
    IF BitAnd(stat.st_mode, IFMT) # IFDIR THEN Panic
    ELSE LET n == check_proc_nonroot(stat, proc_stat)
         IN  IF n.tag # "Ok" THEN n
             ELSE LET m == is_mountpoint(entry)
                  IN  IF m.tag = "Panic" THEN Panic
                      ELSE IF m.val THEN Err("NOTSUP")
                      ELSE Ok("()")

\* check_proc_entry_with_stat, with r-xr-xr-x expected of every kind.
check_proc_entry_with_stat_555(kind, entry, entry_stat, proc_stat, uid, gid) ==
    LET f == check_procfs(entry)
        c == IF kind = "Proc" THEN check_proc_root(entry, entry_stat)
             ELSE check_proc_subdir(entry, entry_stat, proc_stat)
        expected_mode == 365
    IN  IF f.tag # "Ok" THEN f
        ELSE IF c.tag # "Ok" THEN c
        ELSE IF <<entry_stat.st_uid, entry_stat.st_gid>> # <<uid, gid>>
        THEN Err("NOTSUP")
        ELSE IF BitAnd(BitAnd(entry_stat.st_mode, 511),
                       BitNot(expected_mode)) # 0
        THEN Err("NOTSUP")
        ELSE IF kind = "Fd" /\ entry_stat.st_nlink # 2 THEN Err("NOTSUP")
        ELSE IF kind # "Fd" /\ entry_stat.st_nlink <= 2 THEN Err("NOTSUP")
        ELSE Ok(entry_stat)

\* fn check_proc_entry_with_stat(kind, entry, entry_stat, proc_stat, uid, gid)
check_proc_entry_with_stat(kind, entry, entry_stat, proc_stat, uid, gid) ==
    LET f == check_procfs(entry)
        c == IF kind = "Proc" THEN check_proc_root(entry, entry_stat)
             ELSE check_proc_subdir(entry, entry_stat, proc_stat)
        expected_mode == IF kind = "Fd" THEN 320 ELSE 365
    IN  IF f.tag # "Ok" THEN f
        ELSE IF c.tag # "Ok" THEN c
        ELSE IF <<entry_stat.st_uid, entry_stat.st_gid>> # <<uid, gid>>
        THEN Err("NOTSUP")
        ELSE IF BitAnd(BitAnd(entry_stat.st_mode, 511),
                       BitNot(expected_mode)) # 0
        THEN Err("NOTSUP")
        ELSE IF kind = "Fd" /\ entry_stat.st_nlink # 2 THEN Err("NOTSUP")
        ELSE IF kind # "Fd" /\ entry_stat.st_nlink <= 2 THEN Err("NOTSUP")
        ELSE Ok(entry_stat)

\* fn check_proc_entry(kind, entry, proc_stat, uid, gid)
check_proc_entry(kind, entry, proc_stat, uid, gid) ==
    LET entry_stat == entry.fstat
    IN  IF entry_stat.tag = "Err" THEN entry_stat
        ELSE check_proc_entry_with_stat(kind, entry, entry_stat.val,
                                        proc_stat, uid, gid)

\* .map_err(|_err| io::Error::NOTSUP)
map_err_NOTSUP(r) == IF r.tag = "Err" THEN Err("NOTSUP") ELSE r

-----------------------------------------------------------------------------
(* The three cached handles and their initializers.                        *)

\* callers of proc_self_fd
NumThreads == 2

\* descriptor numbers: 1..MaxFds
MaxFds == 4

Threads == 1..NumThreads

\* (OwnedFd, Stat): a descriptor number and the Stat validated for it
Handle(fd, stat) == [fd |-> fd, stat |-> stat]

NoHandle == Handle(0, NoStat)

NoEntry ==
    [fstat |-> Err("none"), fstatfs |-> Err("none"), renameat |-> Err("none")]

\* A row of the descriptor table: a free number, or an open descriptor of
\* an entry of some kind.
FreeRow == [kind |-> "none", entry |-> NoEntry, open |-> FALSE]

OpenRow(k, entry) == [kind |-> k, entry |-> entry, open |-> TRUE]

\* The kernel hands out the lowest free descriptor number; 0: none is free.
LowestFree(table) ==
    LET free == {n \in 1..MaxFds : ~table[n].open}
    IN  IF free = {} THEN 0 ELSE CHOOSE n \in free : \A m \in free : n <= m

\* What openat can return: an error, or a descriptor for some entry.
OpenOutcomes == {Err("NOENT")} \cup {Ok(e) : e \in Entries}

\* The closure of proc(): open "/proc" and check it.
proc_init(opened) ==
    LET o == map_err_NOTSUP(opened)
    IN  IF o.tag = "Err" THEN o
        ELSE map_err_NOTSUP(
                 check_proc_entry("Proc", o.val, None, ROOT, ROOT))

\* proc_self's closure, with the check's error passed on as it is.
proc_self_init_raw(opened, proc_stat, uid, gid) ==
    LET o == map_err_NOTSUP(opened)
    IN  IF o.tag = "Err" THEN o
        ELSE check_proc_entry("Pid", o.val, Some(proc_stat), uid, gid)

\* The closure of proc_self(), after proc()?: open "/proc/<pid>" and check it.
proc_self_init(opened, proc_stat, uid, gid) ==
    LET o == map_err_NOTSUP(opened)
    IN  IF o.tag = "Err" THEN o
        ELSE map_err_NOTSUP(
                 check_proc_entry("Pid", o.val, Some(proc_stat), uid, gid))

\* proc_self_fd's closure, with the opened "fd" stored as it was found.
proc_self_fd_init_unchecked(opened, proc_stat, proc_self_stat) ==
    LET o == map_err_NOTSUP(opened)
    IN  IF o.tag = "Err" THEN o
        ELSE map_err_NOTSUP(o.val.fstat)

\* The closure of proc_self_fd(), after proc()? and proc_self()?: open "fd"
\* and check it against the owner recorded for "/proc/<pid>".
proc_self_fd_init(opened, proc_stat, proc_self_stat) ==
    LET o == map_err_NOTSUP(opened)
    IN  IF o.tag = "Err" THEN o
        ELSE map_err_NOTSUP(
                 check_proc_entry("Fd", o.val, Some(proc_stat),
                                  proc_self_stat.st_uid,
                                  proc_self_stat.st_gid))

\* A frame of a call of proc (k = "Proc"), proc_self ("Pid") or
\* proc_self_fd ("Fd"): its position and its locals.
Frame(k, pc) ==
    [k |-> k, pc |-> pc, proc |-> NoHandle, self |-> NoHandle,
     cand |-> NoHandle]

\* What a thread's last call of proc_self_fd returned.
Ret(tag, fd, err) == [tag |-> tag, fd |-> fd, err |-> err]

NoRet == Ret("None", 0, "")

\* The first position of the closure of cell k.
InitPc(k) == IF k = "Proc" THEN "open" ELSE "proc"

\* Resume, with every closure going on to call proc_self(), its own cell
\* included.
Resume_reentrant(caller, h) == [caller EXCEPT !.proc = h, !.pc = "proc_self"]
\* The caller's frame once its callee has returned Ok(h).
Resume(caller, h) ==
    IF caller.pc = "proc"
    THEN [caller EXCEPT !.proc = h,
                        !.pc = IF caller.k = "Fd" THEN "proc_self" ELSE "open"]
    ELSE [caller EXCEPT !.self = h, !.pc = "open"]

\* get_or_try_init returns Ok(h) to the caller whose frames are rest; the
\* outermost caller is the user of proc_self_fd, who gets the borrowed
\* descriptor.
ReturnOk(t, rest, h) ==
    IF rest = <<>>
    THEN /\ stack' = [stack EXCEPT ![t] = <<>>]
         /\ ret' = [ret EXCEPT ![t] = Ret("Ok", h.fd, "")]
    ELSE /\ stack' = [stack EXCEPT
                         ![t] = <<Resume(rest[1], h)>> \o Tail(rest)]
         /\ UNCHANGED ret

\* Released, with the cell left in its "initializer running" state.
Released_held(t) == lock

\* The locks once thread t has left every initializer it was running.
Released(t) == [k \in Kinds |-> IF lock[k] = t THEN 0 ELSE lock[k]]

\* An initializer returns Err(e): each enclosing closure returns it through
\* `?`, each enclosing get_or_try_init returns it, and so does proc_self_fd.
ReturnErr(t, e) ==
    /\ stack' = [stack EXCEPT ![t] = <<>>]
    /\ lock' = Released(t)
    /\ ret' = [ret EXCEPT ![t] = Ret("Err", 0, e)]

\* An initializer panics: the thread unwinds and is gone.
Unwind(t) ==
    /\ stack' = [stack EXCEPT ![t] = <<>>]
    /\ lock' = Released(t)
    /\ ret' = [ret EXCEPT ![t] = Ret("Panic", 0, "")]

\* GetOrTryInit, with the closure run whether or not the cell is filled.
GetOrTryInit_uncached(t, k, rest) ==
    IF feature = "std" /\ lock[k] # 0
    THEN /\ stack' = [stack EXCEPT ![t] = <<Frame(k, "get")>> \o rest]
         /\ UNCHANGED <<lock, ret>>
    ELSE /\ stack' = [stack EXCEPT ![t] = <<Frame(k, InitPc(k))>> \o rest]
         /\ lock' = IF feature = "std" THEN [lock EXCEPT ![k] = t] ELSE lock
         /\ UNCHANGED ret

\* cell k .get_or_try_init(..), called by the frames rest: return the stored
\* value, or start the closure.  With std's OnceCell one closure runs at a
\* time and the other callers wait ("get") until it has ended.
GetOrTryInit(t, k, rest) ==
    IF cell[k].fd # 0
    THEN /\ ReturnOk(t, rest, cell[k])
         /\ UNCHANGED lock
    ELSE IF feature = "std" /\ lock[k] # 0
    THEN /\ stack' = [stack EXCEPT ![t] = <<Frame(k, "get")>> \o rest]
         /\ UNCHANGED <<lock, ret>>
    ELSE /\ stack' = [stack EXCEPT ![t] = <<Frame(k, InitPc(k))>> \o rest]
         /\ lock' = IF feature = "std" THEN [lock EXCEPT ![k] = t] ELSE lock
         /\ UNCHANGED ret

\* A thread calls proc_self_fd().
Call(t) ==
    /\ stack[t] = <<>>
    /\ ret[t].tag = "None"
    /\ GetOrTryInit(t, "Fd", <<>>)
    /\ UNCHANGED <<feature, ids, cell, fds, double_close, pathVars, valVars, timeVars>>

\* The caller of proc_self_fd() drops the result; it may call again.
Forget(t) ==
    /\ stack[t] = <<>>
    /\ ret[t].tag \in {"Ok", "Err"}
    /\ ret' = [ret EXCEPT ![t] = NoRet]
    /\ UNCHANGED <<feature, ids, cell, lock, fds, double_close, stack,
                   pathVars, valVars, timeVars>>

\* A caller that waited for another thread's closure looks at the cell again.
Wake(t) ==
    /\ stack[t] # <<>>
    /\ stack[t][1].pc = "get"
    /\ cell[stack[t][1].k].fd # 0 \/ lock[stack[t][1].k] = 0
    /\ GetOrTryInit(t, stack[t][1].k, Tail(stack[t]))
    /\ UNCHANGED <<feature, ids, cell, fds, double_close, pathVars, valVars, timeVars>>

\* The closure calls proc().
CallProc(t) ==
    /\ stack[t] # <<>>
    /\ stack[t][1].pc = "proc"
    /\ GetOrTryInit(t, "Proc", stack[t])
    /\ UNCHANGED <<feature, ids, cell, fds, double_close, pathVars, valVars, timeVars>>

\* The closure of proc_self_fd calls proc_self().
CallProcSelf(t) ==
    /\ stack[t] # <<>>
    /\ stack[t][1].pc = "proc_self"
    /\ GetOrTryInit(t, "Pid", stack[t])
    /\ UNCHANGED <<feature, ids, cell, fds, double_close, pathVars, valVars, timeVars>>

\* The result of the closure of cell top.k on what openat returned.
InitResult(top, opened) ==
    IF top.k = "Proc" THEN proc_init(opened)
    ELSE IF top.k = "Pid"
    THEN proc_self_init(opened, top.proc.stat, ids.uid, ids.gid)
    ELSE proc_self_fd_init(opened, top.proc.stat, top.self.stat)

\* The entries the threads meet when they open a directory of kind k as
\* user id: a sound entry, and every entry that differs from it in one
\* respect.
GoodStat(k, id) ==
    [st_mode  |-> IFDIR + (IF k = "Fd" THEN 320 ELSE 365),
     st_ino   |-> IF k = "Proc" THEN PROC_ROOT_INO ELSE 2,
     st_dev   |-> MakeDev(0, 5),
     st_uid   |-> IF k = "Proc" THEN ROOT ELSE id,
     st_gid   |-> IF k = "Proc" THEN ROOT ELSE id,
     st_nlink |-> IF k = "Fd" THEN 2 ELSE 3]

GoodEntry(k, id) ==
    [fstat    |-> Ok(GoodStat(k, id)),
     fstatfs  |-> Ok("PROC_SUPER_MAGIC"),
     renameat |-> IF k = "Proc" THEN Err("XDEV") ELSE Err("BUSY")]

StatFields == {"st_mode", "st_ino", "st_dev", "st_uid", "st_gid", "st_nlink"}

\* In how many respects entry e differs from entry g.
Deviations(e, g) ==
    IF e.fstat.tag = "Err"
    THEN 1 + Cardinality({f \in {"fstatfs", "renameat"} : e[f] # g[f]})
    ELSE Cardinality({f \in StatFields : e.fstat.val[f] # g.fstat.val[f]})
         + Cardinality({f \in {"fstatfs", "renameat"} : e[f] # g[f]})

NearOutcomes ==
    [k \in Kinds |-> [id \in {ROOT, 1000} |->
        {Err("NOENT")} \cup
        {Ok(e) : e \in {x \in Entries : Deviations(x, GoodEntry(k, id)) <= 1}}]]

\* Closed, with the descriptor forgotten instead of closed.
Closed_leak(table, fd) == table

\* drop(OwnedFd): close the descriptor, which frees its number.  Closing
\* a number that is not open is recorded in double_close.
Closed(table, fd) == [table EXCEPT ![fd] = FreeRow]

\* What the closure of frame top makes of what openat returned: its
\* result r, and the entry whose descriptor it keeps when r is Ok.
Checked(top, opened) ==
    LET r == InitResult(top, opened)
    IN  [r |-> r, entry |-> IF r.tag = "Ok" THEN opened.val ELSE NoEntry,
         was_opened |-> opened.tag = "Ok"]

\* The closure opens its directory and checks it.  A descriptor whose check
\* fails or panics is dropped, which closes it.
OpenCheck(t) ==
    /\ stack[t] # <<>>
    /\ stack[t][1].pc = "open"
    /\ \E c \in {Checked(stack[t][1], opened) :
                    opened \in NearOutcomes[stack[t][1].k][ids.uid]} :
          LET top == stack[t][1]
              fd == LowestFree(fds)
          IN  /\ c.was_opened => fd # 0
              /\ IF c.r.tag = "Ok"
                 THEN /\ fds' = [fds EXCEPT ![fd] = OpenRow(top.k, c.entry)]
                      /\ stack' = [stack EXCEPT ![t] =
                             <<[top EXCEPT !.cand = Handle(fd, c.r.val),
                                           !.pc = "store"]>>
                             \o Tail(stack[t])]
                      /\ UNCHANGED <<lock, ret>>
                 ELSE /\ fds' = IF ~c.was_opened THEN fds
                                ELSE Closed([fds EXCEPT ![fd] =
                                        OpenRow(top.k, c.entry)], fd)
                      /\ IF c.r.tag = "Err"
                         THEN ReturnErr(t, c.r.val)
                         ELSE Unwind(t)
    /\ UNCHANGED <<feature, ids, cell, double_close, pathVars, valVars, timeVars>>

\* Stored, with a plain store in place of the compare_exchange.
Stored_overwrite(k, cand) == [cell EXCEPT ![k] = cand]

\* The cell after get_or_try_init has tried to store the candidate.
\* OnceBox: compare_exchange(null, candidate); OnceCell: the one running
\* initializer stores.
Stored(k, cand) ==
    IF feature = "std" \/ cell[k].fd = 0
    THEN [cell EXCEPT ![k] = cand]
    ELSE cell

\* get_or_try_init publishes the closure's value.  OnceBox: the loser of
\* the compare_exchange drops its box; both return the stored value.
Store(t) ==
    /\ stack[t] # <<>>
    /\ LET top == stack[t][1]
       IN  /\ top.pc = "store"
           /\ cell' = Stored(top.k, top.cand)
           /\ IF cell'[top.k].fd = top.cand.fd
              THEN UNCHANGED <<fds, double_close>>
              ELSE /\ fds' = Closed(fds, top.cand.fd)
                   /\ double_close' =
                          (double_close \/ ~fds[top.cand.fd].open)
           /\ lock' = IF feature = "std"
                      THEN [lock EXCEPT ![top.k] = 0] ELSE lock
           /\ ReturnOk(t, Tail(stack[t]), cell'[top.k])
    /\ UNCHANGED <<feature, ids, pathVars, valVars, timeVars>>

-----------------------------------------------------------------------------
(* timerfd.  The library's three functions pass their arguments to the     *)
(* kernel call of the same name and return its result; the timer itself    *)
(* lives in the kernel, modelled here after timerfd_settime(2).            *)

\* struct Timespec { tv_sec, tv_nsec }
Timespec(sec, nsec) == [tv_sec |-> sec, tv_nsec |-> nsec]

\* struct Itimerspec { it_interval, it_value }
Itimerspec(interval, value) == [it_interval |-> interval, it_value |-> value]

\* nanoseconds in a second: tv_nsec is in [0, 1e9)
NSEC_PER_SEC == 1000000000

TsZero == Timespec(0, 0)

\* The kernel accepts the Timespec.
TsValid(ts) ==
    /\ ts.tv_sec >= 0
    /\ ts.tv_nsec >= 0
    /\ ts.tv_nsec < NSEC_PER_SEC

TsLt(a, b) ==
    \/ a.tv_sec < b.tv_sec
    \/ a.tv_sec = b.tv_sec /\ a.tv_nsec < b.tv_nsec

TsLe(a, b) == a = b \/ TsLt(a, b)

\* a + b, with the carry of the nanoseconds
TsAdd(a, b) ==
    IF a.tv_nsec + b.tv_nsec >= NSEC_PER_SEC
    THEN Timespec(a.tv_sec + b.tv_sec + 1,
                  a.tv_nsec + b.tv_nsec - NSEC_PER_SEC)
    ELSE Timespec(a.tv_sec + b.tv_sec, a.tv_nsec + b.tv_nsec)

\* a - b where b <= a, with the borrow of the nanoseconds
TsSub(a, b) ==
    IF a.tv_nsec < b.tv_nsec
    THEN Timespec(a.tv_sec - b.tv_sec - 1,
                  a.tv_nsec + NSEC_PER_SEC - b.tv_nsec)
    ELSE Timespec(a.tv_sec - b.tv_sec, a.tv_nsec - b.tv_nsec)

\* timers a test can hold at once
MaxTimers == 2

TimerFds == 1..MaxTimers

\* A descriptor number behind which there is no timer.
NoTimer ==
    [created |-> FALSE, armed |-> FALSE, interval |-> TsZero,
     expiry |-> TsZero]

\* A timer that timerfd_create has just made: disarmed.
NewTimer == [NoTimer EXCEPT !.created = TRUE]

RECURSIVE NextExpiry(_, _, _)
\* The first expiration after now of a periodic timer that expired at e.
NextExpiry(e, interval, now) ==
    IF TsLt(now, e) THEN e ELSE NextExpiry(TsAdd(e, interval), interval, now)

\* The time that remains until the timer expires next; zero when it is
\* disarmed or has expired and does not repeat.
Remaining(timer, now) ==
    IF ~timer.armed THEN TsZero
    ELSE IF TsLt(now, timer.expiry) THEN TsSub(timer.expiry, now)
    ELSE IF timer.interval = TsZero THEN TsZero
    ELSE TsSub(NextExpiry(timer.expiry, timer.interval, now), now)

\* What the kernel reports of a timer: its interval and the remaining time.
CurrentValue(timer, now) ==
    Itimerspec(timer.interval, Remaining(timer, now))

\* The kernel timer once new_value is installed: a zero it_value disarms,
\* ABSTIME takes it_value as a time of the clock, otherwise it counts
\* from now.
Installed(flags, new_value, now) ==
    [created  |-> TRUE,
     armed    |-> new_value.it_value # TsZero,
     interval |-> new_value.it_interval,
     expiry   |-> IF new_value.it_value = TsZero THEN TsZero
                  ELSE IF flags = "ABSTIME" THEN new_value.it_value
                  ELSE TsAdd(now, new_value.it_value)]

\* What a call gives back: its result and the kernel's timers after it.
Outcome(r, timers) == [ret |-> r, timers |-> timers]

\* imp::syscalls::timerfd_create: a new disarmed timer behind the lowest
\* free descriptor number.
sys_timerfd_create(timers, clockid, flags) ==
    LET free == {n \in TimerFds : ~timers[n].created}
    IN  IF free = {} THEN Outcome(Err("MFILE"), timers)
        ELSE LET fd == CHOOSE n \in free : \A m \in free : n <= m
             IN  Outcome([tag |-> "Ok", val |-> fd],
                         [timers EXCEPT ![fd] = NewTimer])

\* imp::syscalls::timerfd_settime: in one step, report the timer as it
\* is and install new_value.
sys_timerfd_settime(timers, now, fd, flags, new_value) ==
    IF ~timers[fd].created THEN Outcome(Err("BADF"), timers)
    ELSE IF ~TsValid(new_value.it_value) \/ ~TsValid(new_value.it_interval)
    THEN Outcome(Err("INVAL"), timers)
    ELSE Outcome([tag |-> "Ok", val |-> CurrentValue(timers[fd], now)],
                 [timers EXCEPT ![fd] = Installed(flags, new_value, now)])

\* imp::syscalls::timerfd_gettime: report the timer as it is.
sys_timerfd_gettime(timers, now, fd) ==
    IF ~timers[fd].created THEN Outcome(Err("BADF"), timers)
    ELSE Outcome([tag |-> "Ok", val |-> CurrentValue(timers[fd], now)],
                 timers)

\* pub fn timerfd_create(clockid, flags) -> io::Result<OwnedFd>
timerfd_create(timers, clockid, flags) ==
    LET r == sys_timerfd_create(timers, clockid, flags)
    IN  IF r.ret.tag = "Err" THEN r
        ELSE Outcome([tag |-> "Ok", val |-> r.ret.val], r.timers)

\* timerfd_settime, returning the setting it was given.
timerfd_settime_echo(timers, now, fd, flags, new_value) ==
    LET r == sys_timerfd_settime(timers, now, fd, flags, new_value)
    IN  IF r.ret.tag = "Err" THEN r
        ELSE Outcome([tag |-> "Ok", val |-> new_value], r.timers)

\* timerfd_settime, with the two fields of new_value taken for each other.
timerfd_settime_swapped(timers, now, fd, flags, new_value) ==
    sys_timerfd_settime(timers, now, fd, flags,
        Itimerspec(new_value.it_value, new_value.it_interval))

\* pub fn timerfd_settime(fd, flags, new_value) -> io::Result<Itimerspec>
timerfd_settime(timers, now, fd, flags, new_value) ==
    sys_timerfd_settime(timers, now, fd, flags, new_value)

\* timerfd_gettime, made with the call that sets the timer.
timerfd_gettime_disarm(timers, now, fd) ==
    sys_timerfd_settime(timers, now, fd, "empty", Itimerspec(TsZero, TsZero))

\* timerfd_gettime, with the two fields of the result taken for each other.
timerfd_gettime_swapped(timers, now, fd) ==
    LET r == sys_timerfd_gettime(timers, now, fd)
    IN  IF r.ret.tag = "Err" THEN r
        ELSE Outcome([tag |-> "Ok",
                      val |-> Itimerspec(r.ret.val.it_value,
                                         r.ret.val.it_interval)],
                     r.timers)

\* pub fn timerfd_gettime(fd) -> io::Result<Itimerspec>
timerfd_gettime(timers, now, fd) == sys_timerfd_gettime(timers, now, fd)

\* let set = Itimerspec {..}: no setting has been installed yet.
NoSet == [installed |-> FALSE, flags |-> "empty",
          new_value |-> Itimerspec(TsZero, TsZero)]

\* No call has been made.
NoCall == [op |-> "none", fd |-> 0, ret |-> Err("none")]

\* The timers before any call.
TimerIdle ==
    /\ tfd_now = TsZero
    /\ tfd_timers = [n \in TimerFds |-> NoTimer]
    /\ tfd_set = [n \in TimerFds |-> NoSet]
    /\ tfd_last = NoCall

-----------------------------------------------------------------------------
(* The time64 operations of a 32-bit target                                *)
(* (src/imp/linux_raw/syscalls.rs, the target_pointer_width = "32" arms):  *)
(* each issues the call that takes 64-bit times and, when the kernel       *)
(* answers NOSYS, the older call that takes the narrow timespec.           *)

\* i32::MAX and i32::MIN, the range of a field of __kernel_old_timespec
I32_MAX == 2147483647

I32_MIN == -I32_MAX - 1

\* An i64, a field of __kernel_timespec: the value wrap * 2^32 + low with
\* low in the i32 range, so that low is what a cast to i32 would keep.
I64(wrap, low) == [wrap |-> wrap, low |-> low]

\* i64::try_into::<i32>() wrapping instead of failing, as a cast does
try_into_i32_wrapping(v) == Ok(v.low)
\* tv.try_into().map_err(|_| io::Error::INVAL): the i32 of the same value,
\* or INVAL when the value is outside the i32 range
try_into_i32(v) == IF v.wrap = 0 THEN Ok(v.low) ELSE Err("INVAL")

\* old.into(): the i64 of the same value
into_i64(x) == I64(0, x)

\* __kernel_old_timespec { tv_sec: ts.tv_sec.try_into()?, tv_nsec: ... }
old_timespec_from(ts) ==
    LET sec == try_into_i32(ts.tv_sec)
        nsec == try_into_i32(ts.tv_nsec)
    IN  IF sec.tag = "Err" THEN sec
        ELSE IF nsec.tag = "Err" THEN nsec
        ELSE Ok(Timespec(sec.val, nsec.val))

\* [old_timespec(utimes[0]), old_timespec(utimes[1])]
old_utimes_from(utimes) ==
    LET t0 == old_timespec_from(utimes[1])
        t1 == old_timespec_from(utimes[2])
    IN  IF t0.tag = "Err" THEN t0
        ELSE IF t1.tag = "Err" THEN t1
        ELSE Ok(<<t0.val, t1.val>>)

\* __kernel_timespec { tv_sec: old.tv_sec.into(), tv_nsec: old.tv_nsec.into() }
timespec_from_old(old) == Timespec(into_i64(old.tv_sec), into_i64(old.tv_nsec))

\* linux_raw_sys::general::TIMER_ABSTIME
TIMER_ABSTIME == 1

\* AtFlags::SYMLINK_NOFOLLOW.bits()
AT_SYMLINK_NOFOLLOW == 256

\* One kernel call: its number, what it acts on (a clock, or a descriptor
\* and a path), its flags and the times it is given.
KernelCall(nr, obj, flags, req) ==
    [nr |-> nr, obj |-> obj, flags |-> flags, req |-> req]

\* What the kernel answers: new and old are what the time64 call and the
\* older call return; out and old_out are what the buffer given to each
\* holds after it (what the kernel wrote, or whatever the memory held when
\* the kernel wrote nothing).
Kernel(new, out, old, old_out) ==
    [new |-> new, out |-> out, old |-> old, old_out |-> old_out]

\* the match without its INTR arm: an interrupted sleep is a bare error
NanosleepRelativeResult_bare(res, rem) == IF res.tag = "Ok" THEN res ELSE Err(res.val)
\* match res { Ok(()) => Ok, Err(INTR) => Interrupted(rem), Err(err) => Err(err) }
NanosleepRelativeResult(res, rem) ==
    IF res.tag = "Ok" THEN [tag |-> "Ok", val |-> "()"]
    ELSE IF res.val = "INTR" THEN [tag |-> "Interrupted", val |-> rem]
    ELSE [tag |-> "Err", val |-> res.val]

\* fn _utimensat(dirfd, pathname, utimes, flags) -> io::Result<()>
_utimensat(dirfd, pathname, utimes, flags, k) ==
    LET obj == [dirfd |-> dirfd, pathname |-> pathname]
        new_call == KernelCall("utimensat_time64", obj, flags, utimes)
        old_utimes == old_utimes_from(utimes)
    IN  IF k.new.tag = "Ok" THEN Effect(<<new_call>>, k.new)
        ELSE IF k.new.val = "NOSYS"
        THEN IF old_utimes.tag = "Err"
             THEN Effect(<<new_call>>, old_utimes)
             ELSE Effect(<<new_call,
                           KernelCall("utimensat", obj, flags, old_utimes.val)>>,
                         k.old)
        ELSE Effect(<<new_call>>, k.new)

\* pub(crate) fn utimensat(dirfd, pathname, utimes, flags) -> io::Result<()>
utimensat(dirfd, pathname, utimes, flags, k) ==
    _utimensat(dirfd, "Some(pathname)", utimes, flags, k)

\* pub(crate) fn futimens(fd, times) -> io::Result<()>
futimens(fd, times, k) == _utimensat(fd, "None", times, 0, k)

\* pub(crate) fn nanosleep(req) -> NanosleepRelativeResult
nanosleep(req, k) ==
    LET new_call == KernelCall("clock_nanosleep_time64", "Realtime", 0, req)
        old_req == old_timespec_from(req)
    IN  IF k.new.tag = "Ok"
        THEN Effect(<<new_call>>, NanosleepRelativeResult(k.new, k.out))
        ELSE IF k.new.val = "NOSYS"
        THEN IF old_req.tag = "Err"
             THEN Effect(<<new_call>>,
                         NanosleepRelativeResult(old_req, k.out))
             ELSE Effect(<<new_call,
                           KernelCall("nanosleep", "none", 0, old_req.val)>>,
                         NanosleepRelativeResult(
                             k.old, timespec_from_old(k.old_out)))
        ELSE Effect(<<new_call>>, NanosleepRelativeResult(k.new, k.out))

\* pub(crate) fn clock_nanosleep_relative(id, req) -> NanosleepRelativeResult
clock_nanosleep_relative(id, req, k) ==
    LET new_call == KernelCall("clock_nanosleep_time64", id, 0, req)
        old_req == old_timespec_from(req)
    IN  IF k.new.tag = "Ok"
        THEN Effect(<<new_call>>, NanosleepRelativeResult(k.new, k.out))
        ELSE IF k.new.val = "NOSYS"
        THEN IF old_req.tag = "Err"
             THEN Effect(<<new_call>>,
                         NanosleepRelativeResult(old_req, k.out))
             ELSE Effect(<<new_call,
                           KernelCall("clock_nanosleep", id, 0, old_req.val)>>,
                         NanosleepRelativeResult(
                             k.old, timespec_from_old(k.old_out)))
        ELSE Effect(<<new_call>>, NanosleepRelativeResult(k.new, k.out))

\* pub(crate) fn clock_nanosleep_absolute(id, req) -> io::Result<()>
\* The older call is given c_int(0) as its flags.
clock_nanosleep_absolute(id, req, k) ==
    LET new_call == KernelCall("clock_nanosleep_time64", id, TIMER_ABSTIME, req)
        old_req == old_timespec_from(req)
    IN  IF k.new.tag = "Ok" THEN Effect(<<new_call>>, k.new)
        ELSE IF k.new.val = "NOSYS"
        THEN IF old_req.tag = "Err"
             THEN Effect(<<new_call>>, old_req)
             ELSE Effect(<<new_call,
                           KernelCall("clock_nanosleep", id, 0, old_req.val)>>,
                         k.old)
        ELSE Effect(<<new_call>>, k.new)

\* pub(crate) fn clock_getres(which_clock) -> __kernel_timespec
\* The result of the calls is dropped (let _ =) and the buffer is returned
\* as it is: result.assume_init().
clock_getres(which_clock, k) ==
    LET new_call == KernelCall("clock_getres_time64", which_clock, 0, "none")
    IN  IF k.new.tag = "Ok" THEN Effect(<<new_call>>, k.out)
        ELSE IF k.new.val = "NOSYS"
        THEN Effect(<<new_call,
                      KernelCall("clock_getres", which_clock, 0, "none")>>,
                    timespec_from_old(k.old_out))
        ELSE Effect(<<new_call>>, k.out)

\* No operation has been started.
T64Idle ==
    /\ t64_in = [op |-> "none"]
    /\ t64_pc = "idle"
    /\ t64_out = Effect(<<>>, Ok("()"))

\* No wrapper is being run.
SysIdle ==
    /\ sys_in = [op |-> "none"]
    /\ sys_pc = "idle"
    /\ sys_buffer = <<>>
    /\ sys_out = Effect(<<>>, Ok("()"))

TimeIdle == TimerIdle /\ T64Idle /\ SysIdle

-----------------------------------------------------------------------------
(* The path specification: the inputs are drawn in PathInit and each       *)
(* action applies one operation to them.                                   *)

\* The /proc state before any call.
ProcIdle ==
    /\ cell = [k \in Kinds |-> NoHandle]
    /\ lock = [k \in Kinds |-> 0]
    /\ fds = [n \in 1..MaxFds |-> FreeRow]
    /\ double_close = FALSE
    /\ stack = [t \in Threads |-> <<>>]
    /\ ret = [t \in Threads |-> NoRet]

\* No single closure is being run.
ValIdle ==
    /\ val_in = [k |-> "Proc", opened |-> Err("NOENT"),
                 proc_stat |-> NoStat, id |-> ROOT]
    /\ val_pc = "idle"
    /\ val_out = Ok(NoStat)

\* No path operation is under way.
PathIdle ==
    /\ path_p = <<>>
    /\ path_arg = MakeArg("&str", <<>>)
    /\ path_q = <<>>
    /\ path_arg2 = MakeArg("&str", <<>>)
    /\ path_fres = Ok("()")
    /\ path_pc = "idle"
    /\ path_op = "none"
    /\ path_trace = <<>>
    /\ path_result = Ok("()")

PathInit ==
    /\ path_p \in PathInputs
    /\ \E repr \in Reprs :
          /\ repr \in CStrings => ~HasNul(path_p)
          /\ path_arg = MakeArg(repr, path_p)
    /\ path_q \in PathInputs2
    /\ \E repr \in {"&str", "Vec<u8>", "&CStr"} :
          /\ repr \in CStrings => ~HasNul(path_q)
          /\ path_arg2 = MakeArg(repr, path_q)
    /\ path_fres \in ContResults
    /\ path_pc = "ready"
    /\ path_op = "none"
    /\ path_trace = <<>>
    /\ path_result = Ok("()")
    /\ feature = "std"
    /\ ids = [uid |-> 1000, gid |-> 1000]
    /\ ProcIdle
    /\ ValIdle
    /\ TimeIdle

PathDone(op, eff) ==
    /\ path_pc = "ready"
    /\ path_pc' = "done"
    /\ path_op' = op
    /\ path_trace' = eff.trace
    /\ path_result' = eff.result
    /\ UNCHANGED <<path_p, path_arg, path_q, path_arg2, path_fres>>
    /\ UNCHANGED <<procVars, valVars, timeVars>>

CallIntoWithCStr ==
    PathDone("into_with_c_str",
             into_with_c_str(path_arg, UserClosure(path_fres)))

CallIntoCStr == PathDone("into_c_str", Effect(<<>>, into_c_str(path_arg)))

CallAsCowCStr == PathDone("as_cow_c_str", Effect(<<>>, as_cow_c_str(path_arg)))

CallRenameat ==
    PathDone("renameat", renameat(path_arg, path_arg2, path_fres))

CallLinkat ==
    PathDone("linkat", linkat(path_arg, path_arg2, path_fres))

CallSymlinkat ==
    PathDone("symlinkat", symlinkat(path_arg, path_arg2, path_fres))

PathNext ==
    \/ CallIntoWithCStr
    \/ CallIntoCStr
    \/ CallAsCowCStr
    \/ CallRenameat
    \/ CallLinkat
    \/ CallSymlinkat

PathSpec == PathInit /\ [][PathNext]_vars

-----------------------------------------------------------------------------
(* Path conversion: the claims.                                            *)

TwoPathOps == {"renameat", "linkat", "symlinkat"}

\* C1: a path with a NUL byte makes into_with_c_str return INVAL without
\* invoking the continuation, and a NUL in either path of renameat, linkat
\* or symlinkat gives INVAL with no kernel call.
C1_NulIsInvalNoCall ==
    /\ (/\ path_pc = "done"
        /\ path_op = "into_with_c_str"
        /\ HasNul(path_p))
       => /\ path_result.tag = "Err"
          /\ path_result.val = "INVAL"
          /\ path_trace = <<>>
    /\ (/\ path_pc = "done"
        /\ path_op \in TwoPathOps
        /\ HasNul(path_p) \/ HasNul(path_q))
       => /\ path_result.tag = "Err"
          /\ path_result.val = "INVAL"
          /\ path_trace = <<>>

\* C1 witness: renameat was given a short old path (inline buffer) with a
\* NUL through with_c_str and refused it.
C1_Witness ==
    /\ path_pc = "done"
    /\ path_op = "renameat"
    /\ path_arg.repr \in BorrowedBytes
    /\ Len(path_p) < SIZE
    /\ HasNul(path_p)
    /\ path_result.tag = "Err"
    /\ path_trace = <<>>

\* C2: with_c_str on a NUL-free byte string of any length invokes the
\* continuation exactly once, with the bytes followed by one NUL, and
\* returns the continuation's result; the inline and the heap path agree.
C2_InlineHeapEquivalent ==
    (/\ path_pc = "done"
     /\ path_op = "into_with_c_str"
     /\ path_arg.repr \in BorrowedBytes
     /\ ~HasNul(path_p))
    => /\ path_trace = <<[ev |-> "f", args |-> <<path_p \o <<0>>>>]>>
       /\ path_result = path_fres

\* C2 witness: a NUL-free path of exactly SIZE bytes went through.
C2_Witness ==
    /\ path_pc = "done"
    /\ path_op = "into_with_c_str"
    /\ path_arg.repr \in BorrowedBytes
    /\ ~HasNul(path_p)
    /\ Len(path_p) = SIZE
    /\ Len(path_trace) = 1

\* The C string a finished conversion produced: the continuation's
\* argument, or the returned Cow's bytes; <<>> when there is none.
Produced ==
    IF path_op = "into_with_c_str"
    THEN IF Len(path_trace) = 1 THEN path_trace[1].args[1] ELSE <<>>
    ELSE IF path_result.tag = "Ok" THEN path_result.val.bytes ELSE <<>>

\* C3: a NUL-free logical path converted through any representation with
\* into_with_c_str, into_c_str or as_cow_c_str yields the path's bytes
\* followed by one NUL.
C3_SameBytesEveryRepr ==
    (/\ path_pc = "done"
     /\ path_op \in {"into_with_c_str", "into_c_str", "as_cow_c_str"}
     /\ ~HasNul(path_p))
    => Produced = path_p \o <<0>>

\* C3 witness: an owned byte vector was converted with as_cow_c_str.
C3_Witness ==
    /\ path_pc = "done"
    /\ path_op = "as_cow_c_str"
    /\ path_arg.repr = "Vec<u8>"
    /\ ~HasNul(path_p)
    /\ Len(path_p) > 0
    /\ path_result.tag = "Ok"

-----------------------------------------------------------------------------
(* The validation specification: one closure is run on an environment      *)
(* drawn from every combination of what openat, fstat, fstatfs and         *)
(* renameat can return.                                                    *)

\* The Stat of a validated "/proc": its device is one of the two with
\* major number 0.
ProcStats ==
    {[GoodStat("Proc", ROOT) EXCEPT !.st_dev = d] :
        d \in {MakeDev(0, 5), MakeDev(0, 6)}}

\* The Stat of a validated "/proc/<pid>" owned by id on the device of ps.
SelfStat(ps, id) == [GoodStat("Pid", id) EXCEPT !.st_dev = ps.st_dev]

ValInit ==
    /\ val_in \in
          [k : {"Proc"}, opened : OpenOutcomes, proc_stat : {NoStat},
           id : {ROOT}]
          \cup
          [k : {"Pid", "Fd"}, opened : OpenOutcomes, proc_stat : ProcStats,
           id : {ROOT, 1000}]
    /\ val_pc = "ready"
    /\ val_out = Ok(NoStat)
    /\ feature = "std"
    /\ ids = [uid |-> 1000, gid |-> 1000]
    /\ ProcIdle
    /\ PathIdle
    /\ TimeIdle

ValDone(k, out) ==
    /\ val_pc = "ready"
    /\ val_in.k = k
    /\ val_pc' = "done"
    /\ val_out' = out
    /\ UNCHANGED <<val_in, procVars, pathVars, timeVars>>

\* The closure of proc().
RunProcInit == ValDone("Proc", proc_init(val_in.opened))

\* The closure of proc_self(), run by a process with uid and gid val_in.id.
RunProcSelfInit ==
    ValDone("Pid", proc_self_init(val_in.opened, val_in.proc_stat,
                                  val_in.id, val_in.id))

\* The closure of proc_self_fd(), where "/proc/<pid>" is owned by val_in.id.
RunProcSelfFdInit ==
    ValDone("Fd", proc_self_fd_init(val_in.opened, val_in.proc_stat,
                                    SelfStat(val_in.proc_stat, val_in.id)))

ValNext ==
    \/ RunProcInit
    \/ RunProcSelfInit
    \/ RunProcSelfFdInit

ValSpec == ValInit /\ [][ValNext]_vars

-----------------------------------------------------------------------------
(* The /proc specification: threads call proc_self_fd concurrently, under  *)
(* either build of the cache, in a process of an ordinary user.            *)

ProcInit ==
    /\ feature \in {"std", "no_std_demo"}
    /\ ids = [uid |-> 1000, gid |-> 1000]
    /\ ProcIdle
    /\ PathIdle
    /\ ValIdle
    /\ TimeIdle

ProcNext ==
    \/ \E t \in Threads : Call(t)
    \/ \E t \in Threads : Forget(t)
    \/ \E t \in Threads : Wake(t)
    \/ \E t \in Threads : CallProc(t)
    \/ \E t \in Threads : CallProcSelf(t)
    \/ \E t \in Threads : OpenCheck(t)
    \/ \E t \in Threads : Store(t)

Spec == ProcInit /\ [][ProcNext]_vars

-----------------------------------------------------------------------------
(* /proc validation: what the claims speak of.                             *)

\* The frames of every thread.
Frames == UNION {{stack[t][i] : i \in 1..Len(stack[t])} : t \in Threads}

\* The entry behind a handle.
EntryOf(h) == fds[h.fd].entry

\* The bits set in n, among the low 12.
Bits(n) == {i \in 0..11 : (n \div (2 ^ i)) % 2 = 1}

\* The file type of a mode is "directory".
ModeIsDir(mode) == mode \div 4096 = 4

\* Owner, permission bits and link count are those expected of kind k.
OwnerModeLinksOk(k, st, uid, gid) ==
    /\ st.st_uid = uid
    /\ st.st_gid = gid
    /\ Bits(st.st_mode % 512) \subseteq Bits(IF k = "Fd" THEN 320 ELSE 365)
    /\ IF k = "Fd" THEN st.st_nlink = 2 ELSE st.st_nlink > 2

\* Entry e passes every check of kind k, where the validated "/proc" has
\* Stat ps and the expected owner is uid:gid.
Sound(k, e, ps, uid, gid) ==
    /\ e.fstat.tag = "Ok"
    /\ e.fstatfs.tag = "Ok"
    /\ e.fstatfs.val = "PROC_SUPER_MAGIC"
    /\ e.renameat.tag = "Err"
    /\ ModeIsDir(e.fstat.val.st_mode)
    /\ IF k = "Proc"
       THEN /\ e.fstat.val.st_ino = 1
            /\ e.fstat.val.st_dev.major = 0
            /\ e.renameat.val = "XDEV"
       ELSE /\ e.fstat.val.st_ino # 1
            /\ e.fstat.val.st_dev = ps.st_dev
            /\ e.renameat.val = "BUSY"
    /\ OwnerModeLinksOk(k, e.fstat.val, uid, gid)

\* C4: a handle that proc() has cached or returned is an open descriptor of
\* a directory on procfs (PROC_SUPER_MAGIC) with inode 1, device major 0,
\* that is a mount point.
C4_ProcIsCheckedRoot ==
    \A h \in {cell["Proc"]} \cup {f.proc : f \in Frames} :
        h.fd # 0 =>
            /\ fds[h.fd].open
            /\ fds[h.fd].kind = "Proc"
            /\ EntryOf(h).fstatfs = Ok("PROC_SUPER_MAGIC")
            /\ EntryOf(h).fstat.tag = "Ok"
            /\ EntryOf(h).fstat.val.st_ino = 1
            /\ EntryOf(h).fstat.val.st_dev.major = 0
            /\ EntryOf(h).renameat = Err("XDEV")

\* C4 witness: proc() has returned the cached "/proc" handle to a closure.
C4_Witness ==
    /\ cell["Proc"].fd # 0
    /\ \E f \in Frames : f.proc = cell["Proc"]

\* C5: a handle that proc_self() or proc_self_fd() has cached or returned
\* is on procfs, is not a mount point, does not have inode 1 and is on the
\* device of the validated "/proc".
C5_SubdirIsChecked ==
    \A h \in {cell["Pid"], cell["Fd"]} \cup {f.self : f \in Frames}
             \cup {Handle(ret[t].fd, cell["Fd"].stat) : t \in Threads} :
        h.fd # 0 =>
            /\ fds[h.fd].open
            /\ fds[h.fd].kind \in {"Pid", "Fd"}
            /\ EntryOf(h).fstatfs = Ok("PROC_SUPER_MAGIC")
            /\ EntryOf(h).renameat = Err("BUSY")
            /\ EntryOf(h).fstat.tag = "Ok"
            /\ EntryOf(h).fstat.val.st_ino # 1
            /\ cell["Proc"].fd # 0
            /\ EntryOf(h).fstat.val.st_dev = cell["Proc"].stat.st_dev

\* C5 witness: proc_self_fd() has returned the "/proc/<pid>/fd" handle.
C5_Witness ==
    /\ cell["Pid"].fd # 0
    /\ \E t \in Threads : ret[t].tag = "Ok" /\ ret[t].fd = cell["Fd"].fd

\* The owner expected of the entry of the closure that was run.
ValOwner == IF val_in.k = "Proc" THEN ROOT ELSE val_in.id

\* C6: an entry passes validation only if its owner is the expected one,
\* its permission bits are a subset of 0o555 (0o500 for the fd directory)
\* and its link count is above 2 (exactly 2 for the fd directory); an entry
\* with fewer permission bits that meets every check passes.
C6_OwnerModeLinks ==
    val_pc = "done" =>
        /\ val_out.tag = "Ok" =>
              /\ val_in.opened.tag = "Ok"
              /\ val_in.opened.val.fstat.tag = "Ok"
              /\ OwnerModeLinksOk(val_in.k, val_in.opened.val.fstat.val,
                                  ValOwner, ValOwner)
        /\ (/\ val_in.opened.tag = "Ok"
            /\ Sound(val_in.k, val_in.opened.val, val_in.proc_stat,
                     ValOwner, ValOwner))
           => val_out.tag = "Ok"

\* C6 witness: a "/proc/<pid>" with r-x------, fewer permissions than
\* r-xr-xr-x, passed.
C6_Witness ==
    /\ val_pc = "done"
    /\ val_in.k = "Pid"
    /\ val_out.tag = "Ok"
    /\ val_in.opened.val.fstat.val.st_mode = IFDIR + 320

\* C7: whatever makes the chain fail, proc_self_fd returns NOTSUP and no
\* other error.
C7_OnlyNotsup ==
    \A t \in Threads : ret[t].tag = "Err" => ret[t].err = "NOTSUP"

\* C7 witness: a call failed with NOTSUP after "/proc" had been validated.
C7_Witness ==
    /\ cell["Proc"].fd # 0
    /\ cell["Pid"].fd = 0
    /\ \E t \in Threads : ret[t].tag = "Err" /\ ret[t].err = "NOTSUP"

\* The entry that was opened is a directory.
ValIsDir ==
    /\ val_in.opened.tag = "Ok"
    /\ val_in.opened.val.fstat.tag = "Ok"
    /\ ModeIsDir(val_in.opened.val.fstat.val.st_mode)

\* C8 as claimed: a validation panics only in the assertions that the
\* entry was opened as a directory.
C8_OnlyDirAssertionsPanic ==
    (val_pc = "done" /\ val_out.tag = "Panic") => ~ValIsDir

\* C8, amended: a validation that does not return Ok returns NOTSUP or
\* panics, and it panics only in the assertions that the entry was opened
\* as a directory or in is_mountpoint, when renameat returns anything but
\* the errors XDEV and BUSY.
C8_PanicsOnlyDirOrRename ==
    val_pc = "done" =>
        /\ val_out.tag = "Err" => val_out.val = "NOTSUP"
        /\ val_out.tag = "Panic" =>
              /\ val_in.opened.tag = "Ok"
              /\ val_in.opened.val.fstat.tag = "Ok"
              /\ \/ ~ValIsDir
                 \/ val_in.opened.val.renameat
                        \notin {Err("XDEV"), Err("BUSY")}

\* C8 witness: is_mountpoint panicked on a directory of procfs.
C8_Witness ==
    /\ val_pc = "done"
    /\ val_out.tag = "Panic"
    /\ ValIsDir
    /\ val_in.opened.val.fstatfs = Ok("PROC_SUPER_MAGIC")
    /\ val_in.opened.val.renameat = Err("ACCES")

\* C9: a cell that holds a handle keeps it in every step, and every call
\* of proc_self_fd that returns Ok returns the handle the cell holds.
C9_FirstStoreWins ==
    [][/\ \A k \in Kinds : cell[k].fd # 0 => cell'[k] = cell[k]
       /\ \A t \in Threads :
             ret'[t].tag = "Ok" =>
                 /\ cell'["Fd"].fd # 0
                 /\ ret'[t].fd = cell'["Fd"].fd]_vars

\* C9 witness: OnceBox, and every caller has returned the stored
\* descriptor 4 although descriptor 3, a candidate that lost a race, was
\* opened before it and has been dropped.
C9_Witness ==
    /\ feature = "no_std_demo"
    /\ cell["Fd"].fd = 4
    /\ ~fds[3].open
    /\ \A t \in Threads : ret[t].tag = "Ok" /\ ret[t].fd = 4

\* The owner expected of the entry in cell k.
CellOwner(k) ==
    IF k = "Proc" THEN [uid |-> ROOT, gid |-> ROOT]
    ELSE IF k = "Pid" THEN ids
    ELSE [uid |-> cell["Pid"].stat.st_uid, gid |-> cell["Pid"].stat.st_gid]

\* C10: a cell is empty or holds an open descriptor of its kind whose
\* entry passes every check of that kind, with the Stat that was checked.
C10_PublishedIsValidated ==
    \A k \in Kinds :
        cell[k].fd # 0 =>
            /\ fds[cell[k].fd].open
            /\ fds[cell[k].fd].kind = k
            /\ k # "Proc" => cell["Proc"].fd # 0
            /\ k = "Fd" => cell["Pid"].fd # 0
            /\ Sound(k, EntryOf(cell[k]), cell["Proc"].stat,
                     CellOwner(k).uid, CellOwner(k).gid)
            /\ cell[k].stat = EntryOf(cell[k]).fstat.val

\* C10 witness: all three cells hold a handle.
C10_Witness == \A k \in Kinds : cell[k].fd # 0

\* An entry that meets every check of the closure of frame top.
ValidEntry(top) ==
    LET owner == IF top.k = "Proc" THEN ROOT
                 ELSE IF top.k = "Pid" THEN ids.uid
                 ELSE top.self.stat.st_uid
        dev == IF top.k = "Proc" THEN MakeDev(0, 5) ELSE top.proc.stat.st_dev
    IN  [GoodEntry(top.k, owner) EXCEPT
            !.fstat = Ok([GoodStat(top.k, owner) EXCEPT !.st_dev = dev])]

\* C11: a call that fails writes no cell and leaves no initializer locked
\* (with OnceCell the cell it failed on is still empty); the next call,
\* finding the cell empty, starts the closure again or waits for one that
\* runs; and every closure that is about to open its directory, also after
\* earlier failures, returns Ok when the entry it opens is valid.
C11_FailureNotCached ==
    [][\A t \in Threads :
          /\ (ret[t].tag # "Err" /\ ret'[t].tag = "Err") =>
                /\ cell' = cell
                /\ \A k \in Kinds : lock'[k] # t
                /\ stack[t] # <<>>
                /\ feature = "std" => cell'[stack[t][1].k].fd = 0
          /\ (stack[t] = <<>> /\ stack'[t] # <<>>) =>
                /\ cell["Fd"].fd = 0
                /\ \/ stack'[t] = <<Frame("Fd", "proc")>>
                   \/ /\ stack'[t] = <<Frame("Fd", "get")>>
                      /\ lock["Fd"] \notin {0, t}
          /\ (stack[t] # <<>> /\ stack[t][1].pc = "open") =>
                InitResult(stack[t][1], Ok(ValidEntry(stack[t][1]))).tag
                    = "Ok"]_vars

\* C11 witness: OnceCell; one call has failed, so the cell it was
\* initializing was empty then, and another call has returned Ok, so
\* that cell was filled by a validation run after the failure.
C11_Witness ==
    /\ feature = "std"
    /\ \E t, u \in Threads : ret[t].tag = "Err" /\ ret[u].tag = "Ok"

\* C12: once PROC_SELF_FD is filled, a new call of proc_self_fd returns Ok
\* with the descriptor in the cell in one step, opening and closing
\* nothing; all callers that hold an Ok result hold the same descriptor,
\* which is open.
C12_Idempotent ==
    [][/\ \A t \in Threads :
             (cell["Fd"].fd # 0 /\ stack[t] = <<>> /\ ret[t].tag = "None"
              /\ <<stack'[t], ret'[t]>> # <<stack[t], ret[t]>>) =>
                /\ ret'[t] = Ret("Ok", cell["Fd"].fd, "")
                /\ stack'[t] = <<>>
                /\ fds' = fds
                /\ cell' = cell
       /\ \A t, u \in Threads :
             (ret'[t].tag = "Ok" /\ ret'[u].tag = "Ok") =>
                /\ ret'[t].fd = ret'[u].fd
                /\ fds'[ret'[t].fd].open
                /\ fds'[ret'[t].fd].kind = "Fd"]_vars

\* C12 witness: every caller holds the Ok result and only the three
\* published descriptors are open.
C12_Witness ==
    /\ \A t \in Threads : ret[t].tag = "Ok" /\ stack[t] = <<>>
    /\ Cardinality({n \in 1..MaxFds : fds[n].open}) = 3

\* Who owns descriptor n: the cells that hold it and the frames whose
\* closure has returned it and not yet stored it.
Owners(n) ==
    {<<"cell", k>> : k \in {c \in Kinds : cell[c].fd = n}}
    \cup UNION {{<<"frame", t, i>> :
                   i \in {j \in 1..Len(stack[t]) :
                             /\ stack[t][j].pc = "store"
                             /\ stack[t][j].cand.fd = n}} : t \in Threads}

\* C13: no descriptor is closed twice; a published descriptor is open;
\* every open descriptor has exactly one owner, a cell or a candidate not
\* yet stored, so that nothing opened by a closure that failed or lost
\* the race stays open; a returned descriptor is the published one, open.
C13_SingleOwner ==
    /\ double_close = FALSE
    /\ \A k \in Kinds : cell[k].fd # 0 => fds[cell[k].fd].open
    /\ \A n \in 1..MaxFds :
          IF fds[n].open THEN Cardinality(Owners(n)) = 1
          ELSE Owners(n) = {}
    /\ \A t \in Threads :
          ret[t].tag = "Ok" =>
             /\ ret[t].fd = cell["Fd"].fd
             /\ fds[ret[t].fd].open

\* C13 witness: OnceBox; two closures opened "/proc", the second one
\* published descriptor 2 and the first one, which lost, has closed
\* descriptor 1.
C13_Witness ==
    /\ feature = "no_std_demo"
    /\ cell["Proc"].fd = 2
    /\ ~fds[1].open
    /\ \A f \in Frames : ~(f.k = "Proc" /\ f.pc = "store")

-----------------------------------------------------------------------------
(* The timer specification: callers create timers, set them, query them    *)
(* and let time pass, in any order.                                        *)

\* the clock stops once it shows this many seconds
MaxClock == 3

\* By how much the clock advances between two calls.
Deltas == {Timespec(2, 999999999)}

\* The settings the callers install: disarmed, one-shot, periodic with an
\* interval above the first expiration, the setting of the test, and one
\* the kernel rejects.
SetValues ==
    {Itimerspec(TsZero, TsZero),
     Itimerspec(TsZero, Timespec(1, 0)),
     Itimerspec(Timespec(3, 4), Timespec(1, 0)),
     Itimerspec(Timespec(3, 4), Timespec(5, 6)),
     Itimerspec(TsZero, Timespec(0, NSEC_PER_SEC))}

TimerfdTimerFlags == {"empty", "ABSTIME"}

TimerInit ==
    /\ TimerIdle
    /\ T64Idle
    /\ SysIdle
    /\ feature = "std"
    /\ ids = [uid |-> 1000, gid |-> 1000]
    /\ ProcIdle
    /\ PathIdle
    /\ ValIdle

Call_timerfd_create ==
    LET r == timerfd_create(tfd_timers, "Monotonic", "CLOEXEC")
    IN  /\ tfd_timers' = r.timers
        /\ tfd_last' = [op |-> "create",
                        fd |-> IF r.ret.tag = "Ok" THEN r.ret.val ELSE 0,
                        ret |-> r.ret]
        /\ UNCHANGED <<tfd_now, tfd_set, t64Vars, sysVars, pathVars, procVars,
                       valVars>>

Call_timerfd_settime ==
    \E fd \in TimerFds, flags \in TimerfdTimerFlags, new_value \in SetValues :
        LET r == timerfd_settime(tfd_timers, tfd_now, fd, flags, new_value)
        IN  /\ tfd_timers' = r.timers
            /\ tfd_set' =
                  IF r.ret.tag = "Ok"
                  THEN [tfd_set EXCEPT ![fd] =
                           [installed |-> TRUE, flags |-> flags,
                            new_value |-> new_value]]
                  ELSE tfd_set
            /\ tfd_last' = [op |-> "settime", fd |-> fd, ret |-> r.ret]
            /\ UNCHANGED <<tfd_now, t64Vars, sysVars, pathVars, procVars,
                           valVars>>

Call_timerfd_gettime ==
    \E fd \in TimerFds :
        LET r == timerfd_gettime(tfd_timers, tfd_now, fd)
        IN  /\ tfd_timers' = r.timers
            /\ tfd_last' = [op |-> "gettime", fd |-> fd, ret |-> r.ret]
            /\ UNCHANGED <<tfd_now, tfd_set, t64Vars, sysVars, pathVars, procVars,
                       valVars>>

\* Time passes.
Elapse ==
    /\ tfd_now.tv_sec < MaxClock
    /\ \E d \in Deltas : tfd_now' = TsAdd(tfd_now, d)
    /\ UNCHANGED <<tfd_timers, tfd_set, tfd_last, t64Vars, sysVars, pathVars,
                   procVars, valVars>>

TimerNext ==
    \/ Call_timerfd_create
    \/ Call_timerfd_settime
    \/ Call_timerfd_gettime
    \/ Elapse

TimerSpec == TimerInit /\ [][TimerNext]_vars

\* The step is a call of the operation op that returned Ok.
OkStepOf(op) ==
    /\ tfd_now' = tfd_now
    /\ tfd_last'.op = op
    /\ tfd_last'.ret.tag = "Ok"

\* C14: a timerfd_settime that succeeds returns the timer as the
\* preceding call left it: the interval that call installed and the time
\* left to the expiration it installed, all zero when no call preceded;
\* in the same step the timer becomes what the new setting installs.
C14_SettimeReturnsPrevious ==
    [][OkStepOf("settime") =>
          LET fd == tfd_last'.fd
              old == tfd_last'.ret.val
          IN  /\ old.it_interval = tfd_set[fd].new_value.it_interval
              /\ old.it_value = Remaining(tfd_timers[fd], tfd_now)
              /\ ~tfd_set[fd].installed =>
                    old = Itimerspec(TsZero, TsZero)
              /\ tfd_set[fd].new_value.it_value = TsZero =>
                    old.it_value = TsZero
              /\ tfd_timers'[fd] = Installed(tfd_set'[fd].flags,
                                             tfd_set'[fd].new_value,
                                             tfd_now)]_vars

\* C14 witness: a second timerfd_settime has replaced a periodic setting
\* by a one-shot one and returned the periodic one, still running.
C14_Witness ==
    /\ tfd_last.op = "settime"
    /\ tfd_last.ret.tag = "Ok"
    /\ tfd_last.ret.val.it_interval = Timespec(3, 4)
    /\ tfd_last.ret.val.it_value # TsZero
    /\ tfd_set[tfd_last.fd].new_value = Itimerspec(TsZero, Timespec(1, 0))

\* C15: timerfd_gettime changes no timer and returns what the kernel
\* timer shows; timerfd_settime changes only the timer it names and
\* timerfd_create only the descriptor it returns.
C15_GettimeIsPure ==
    [][/\ OkStepOf("gettime") =>
             /\ tfd_timers' = tfd_timers
             /\ tfd_set' = tfd_set
             /\ tfd_last'.ret.val =
                    CurrentValue(tfd_timers[tfd_last'.fd], tfd_now)
       /\ OkStepOf("settime") =>
             \A o \in TimerFds \ {tfd_last'.fd} :
                 tfd_timers'[o] = tfd_timers[o]
       /\ OkStepOf("create") =>
             /\ ~tfd_timers[tfd_last'.fd].created
             /\ \A o \in TimerFds \ {tfd_last'.fd} :
                   tfd_timers'[o] = tfd_timers[o]]_vars

\* C15 witness: timerfd_gettime has returned the remaining time of a
\* running timer while another timer is running too.
C15_Witness ==
    /\ tfd_last.op = "gettime"
    /\ tfd_last.ret.tag = "Ok"
    /\ tfd_last.ret.val.it_value # TsZero
    /\ \A fd \in TimerFds : tfd_timers[fd].armed

\* The last call is a timerfd_gettime that returned Ok on a timer for
\* which a setting has been installed.
GotAfterSet ==
    /\ tfd_last.op = "gettime"
    /\ tfd_last.ret.tag = "Ok"
    /\ tfd_set[tfd_last.fd].installed

\* let set = ..: the setting installed on the timer of the last call
LastSet == tfd_set[tfd_last.fd].new_value

\* C16: the it_interval that timerfd_gettime returns equals the one that
\* was set, in seconds and in nanoseconds.
C16_IntervalReadBack ==
    GotAfterSet =>
        /\ tfd_last.ret.val.it_interval.tv_sec = LastSet.it_interval.tv_sec
        /\ tfd_last.ret.val.it_interval.tv_nsec = LastSet.it_interval.tv_nsec

\* C16 witness: the interval 3 s 4 ns was read back after the timer's
\* first expiration.
C16_Witness ==
    /\ GotAfterSet
    /\ LastSet = Itimerspec(Timespec(3, 4), Timespec(5, 6))
    /\ tfd_set[tfd_last.fd].flags = "empty"
    /\ TsLt(tfd_last.ret.val.it_value, Timespec(3, 0))

C18_AbstimeNotSmaller ==
    (GotAfterSet /\ tfd_set[tfd_last.fd].flags = "ABSTIME") =>
        /\ LastSet.it_value.tv_sec <= tfd_last.ret.val.it_value.tv_sec
        /\ \/ LastSet.it_value.tv_nsec <= tfd_last.ret.val.it_value.tv_nsec
           \/ LastSet.it_value.tv_sec < tfd_last.ret.val.it_value.tv_sec

-----------------------------------------------------------------------------
(* The time64 specification: one operation is run on a 32-bit target with  *)
(* times around the i32 range, on a kernel drawn from every combination of *)
(* what the time64 call and the older call can answer.                     *)

ClockIds == {"Realtime", "Monotonic"}

\* tv_sec: 1, i32::MAX, 2^31, -2^31 - 1 and 2^32 + 5
Secs == {I64(0, 1), I64(0, I32_MAX), I64(1, I32_MIN), I64(-1, I32_MAX),
         I64(1, 5)}

\* tv_nsec: 0, 999999999 and 2^32
Nsecs == {I64(0, 0), I64(0, NSEC_PER_SEC - 1), I64(1, 0)}

Reqs == {Timespec(sec, nsec) : sec \in Secs, nsec \in Nsecs}

\* The two times of utimensat: each fits, or has one field that does not.
UtimesReqs ==
    LET few == {Timespec(I64(0, 1), I64(0, 0)),
                Timespec(I64(0, I32_MAX), I64(0, NSEC_PER_SEC - 1)),
                Timespec(I64(1, I32_MIN), I64(0, 0)),
                Timespec(I64(0, 1), I64(1, 0))}
    IN  {<<a, m>> : a \in few, m \in few}

\* What the time64 call returns, and what the older call returns.
NewRets == {Ok("()"), Err("NOSYS"), Err("INTR"), Err("INVAL")}

OldRets == {Ok("()"), Err("INTR"), Err("FAULT")}

\* What the buffer of the time64 call and of the older call can hold.
Outs == {Timespec(I64(0, 0), I64(0, 5)), Timespec(I64(1, I32_MIN), I64(0, 1))}

OldOuts == {Timespec(0, 7), Timespec(2, 0)}

Kernels ==
    {Kernel(new, out, old, old_out) :
        new \in NewRets, out \in Outs, old \in OldRets, old_out \in OldOuts}

\* An operation and its arguments.
T64Input(op, dirfd, id, flags, req, k) ==
    [op |-> op, dirfd |-> dirfd, id |-> id, flags |-> flags, req |-> req,
     k |-> k]

T64Inputs ==
    {T64Input("utimensat", 3, "none", flags, req, k) :
        flags \in {0, AT_SYMLINK_NOFOLLOW}, req \in UtimesReqs, k \in Kernels}
    \cup
    {T64Input("futimens", 3, "none", 0, req, k) :
        req \in UtimesReqs, k \in Kernels}
    \cup
    {T64Input("nanosleep", 0, "Realtime", 0, req, k) :
        req \in Reqs, k \in Kernels}
    \cup
    {T64Input(op, 0, id, 0, req, k) :
        op \in {"clock_nanosleep_relative", "clock_nanosleep_absolute"},
        id \in ClockIds, req \in Reqs, k \in Kernels}
    \cup
    {T64Input("clock_getres", 0, id, 0, Timespec(I64(0, 0), I64(0, 0)), k) :
        id \in ClockIds, k \in Kernels}

T64Init ==
    /\ t64_in \in T64Inputs
    /\ t64_pc = "ready"
    /\ t64_out = Effect(<<>>, Ok("()"))
    /\ TimerIdle
    /\ SysIdle
    /\ feature = "std"
    /\ ids = [uid |-> 1000, gid |-> 1000]
    /\ ProcIdle
    /\ PathIdle
    /\ ValIdle

T64Done(op, out) ==
    /\ t64_pc = "ready"
    /\ t64_in.op = op
    /\ t64_pc' = "done"
    /\ t64_out' = out
    /\ UNCHANGED <<t64_in, timerVars, sysVars, pathVars, procVars, valVars>>

Call_utimensat ==
    T64Done("utimensat",
            utimensat(t64_in.dirfd, "pathname", t64_in.req, t64_in.flags,
                      t64_in.k))

Call_futimens ==
    T64Done("futimens", futimens(t64_in.dirfd, t64_in.req, t64_in.k))

Call_nanosleep == T64Done("nanosleep", nanosleep(t64_in.req, t64_in.k))

Call_clock_nanosleep_relative ==
    T64Done("clock_nanosleep_relative",
            clock_nanosleep_relative(t64_in.id, t64_in.req, t64_in.k))

Call_clock_nanosleep_absolute ==
    T64Done("clock_nanosleep_absolute",
            clock_nanosleep_absolute(t64_in.id, t64_in.req, t64_in.k))

Call_clock_getres ==
    T64Done("clock_getres", clock_getres(t64_in.id, t64_in.k))

T64Next ==
    \/ Call_utimensat
    \/ Call_futimens
    \/ Call_nanosleep
    \/ Call_clock_nanosleep_relative
    \/ Call_clock_nanosleep_absolute
    \/ Call_clock_getres

T64Spec == T64Init /\ [][T64Next]_vars

-----------------------------------------------------------------------------
(* The time64 operations: the claims.                                      *)

\* The number of the time64 call and of the older call of each operation.
Time64Nr ==
    [utimensat |-> "utimensat_time64",
     futimens |-> "utimensat_time64",
     nanosleep |-> "clock_nanosleep_time64",
     clock_nanosleep_relative |-> "clock_nanosleep_time64",
     clock_nanosleep_absolute |-> "clock_nanosleep_time64",
     clock_getres |-> "clock_getres_time64"]

OldNr ==
    [utimensat |-> "utimensat",
     futimens |-> "utimensat",
     nanosleep |-> "nanosleep",
     clock_nanosleep_relative |-> "clock_nanosleep",
     clock_nanosleep_absolute |-> "clock_nanosleep",
     clock_getres |-> "clock_getres"]

\* The operations that return a NanosleepRelativeResult.
RelativeSleeps == {"nanosleep", "clock_nanosleep_relative"}

\* The operations that narrow their times for the older call.
Narrowing ==
    {"utimensat", "futimens", "nanosleep", "clock_nanosleep_relative",
     "clock_nanosleep_absolute"}

\* The value of every field of the time is in the i32 range.
FitsOld(ts) == ts.tv_sec.wrap = 0 /\ ts.tv_nsec.wrap = 0

\* Every time the operation passes fits the older call.
ReqFits(in) ==
    IF in.op \in {"utimensat", "futimens"}
    THEN FitsOld(in.req[1]) /\ FitsOld(in.req[2])
    ELSE in.op \in Narrowing => FitsOld(in.req)

\* What the operation op returns when a call that returned res, with
\* out in its buffer, is the operation's outcome.
OutcomeOf(op, res, out) ==
    IF op \in RelativeSleeps
    THEN IF res.tag = "Ok" THEN [tag |-> "Ok", val |-> "()"]
         ELSE IF res.val = "INTR" THEN [tag |-> "Interrupted", val |-> out]
         ELSE res
    ELSE IF op = "clock_getres" /\ res.tag = "Ok" THEN Ok(out)
    ELSE res

\* What the operation returned, as a result: clock_getres returns a bare
\* timespec, which is a success.
Returned(in, out) ==
    IF in.op = "clock_getres" THEN Ok(out.result) ELSE out.result

\* The time the older call was given, widened.
OldReqWidened(in, call) ==
    IF in.op \in {"utimensat", "futimens"}
    THEN <<timespec_from_old(call.req[1]), timespec_from_old(call.req[2])>>
    ELSE timespec_from_old(call.req)

\* C19 (as stated): every time64 operation issues the time64 call first;
\* when that call returns anything but NOSYS no other call is issued and
\* its outcome is returned unchanged; when it returns NOSYS (and the times
\* fit the older call) the older call is issued once, after it, and its
\* outcome is the operation's outcome.
C19_FallbackExactlyOnNosys ==
    t64_pc = "done" =>
        LET in == t64_in
            k == t64_in.k
            trace == t64_out.trace
        IN  /\ Len(trace) >= 1
            /\ trace[1].nr = Time64Nr[in.op]
            /\ k.new # Err("NOSYS") =>
                  /\ Len(trace) = 1
                  /\ Returned(in, t64_out) = OutcomeOf(in.op, k.new, k.out)
            /\ (k.new = Err("NOSYS") /\ ReqFits(in)) =>
                  /\ Len(trace) = 2
                  /\ trace[2].nr = OldNr[in.op]
                  /\ Returned(in, t64_out) =
                        OutcomeOf(in.op, k.old, timespec_from_old(k.old_out))

\* C20: in the NOSYS fallback of utimensat (and futimens), nanosleep,
\* clock_nanosleep_relative and clock_nanosleep_absolute, a time with a
\* field outside the i32 range makes the operation return INVAL with no
\* older call issued; an older call that is issued is given exactly the
\* values of the request.
C20_NarrowingFailsWithInval ==
    (t64_pc = "done" /\ t64_in.op \in Narrowing
        /\ t64_in.k.new = Err("NOSYS")) =>
        LET trace == t64_out.trace
        IN  /\ ~ReqFits(t64_in) =>
                  /\ Len(trace) = 1
                  /\ t64_out.result = Err("INVAL")
            /\ Len(trace) = 2 =>
                  OldReqWidened(t64_in, trace[2]) = t64_in.req

\* A nanosleep whose tv_nsec is 2^32, which a cast would turn into 0, on a
\* kernel without the time64 call: INVAL, and the older call is not issued.
C20_Witness ==
    /\ t64_pc = "done"
    /\ t64_in.op = "clock_nanosleep_relative"
    /\ t64_in.k.new = Err("NOSYS")
    /\ t64_in.req = Timespec(I64(0, 1), I64(1, 0))
    /\ t64_out.result = Err("INVAL")
    /\ Len(t64_out.trace) = 1

\* The call the operation issued last, what it returned and what its
\* buffer held, widened when it is the older call.
LastCall ==
    IF Len(t64_out.trace) = 2
    THEN [ret |-> t64_in.k.old, rem |-> timespec_from_old(t64_in.k.old_out)]
    ELSE [ret |-> t64_in.k.new, rem |-> t64_in.k.out]

\* The older call was not issued because a field did not fit it.
NarrowingFailed ==
    /\ t64_in.k.new = Err("NOSYS")
    /\ Len(t64_out.trace) = 1

\* C25: nanosleep and clock_nanosleep_relative return Interrupted(rem)
\* exactly when the sleep call they issued last returned INTR, rem being
\* what that call left in its buffer (widened for the older call); they
\* return Ok exactly when it returned Ok, and Err(e) for every other error
\* e, so Err never carries INTR.
C25_InterruptedIffIntr ==
    (t64_pc = "done" /\ t64_in.op \in RelativeSleeps) =>
        LET r == t64_out.result
            slept == ~NarrowingFailed
        IN  /\ r.tag \in {"Ok", "Interrupted", "Err"}
            /\ r.tag = "Interrupted" <=> (slept /\ LastCall.ret = Err("INTR"))
            /\ r.tag = "Interrupted" => r.val = LastCall.rem
            /\ r.tag = "Ok" <=> (slept /\ LastCall.ret.tag = "Ok")
            /\ r.tag = "Err" =>
                  /\ r.val # "INTR"
                  /\ r.val = IF slept THEN LastCall.ret.val ELSE "INVAL"

\* nanosleep on a kernel without the time64 call, interrupted in the older
\* call: the remaining time of the older call, widened.
C25_Witness ==
    /\ t64_pc = "done"
    /\ t64_in.op = "nanosleep"
    /\ Len(t64_out.trace) = 2
    /\ t64_in.k.old = Err("INTR")
    /\ t64_in.k.old_out = Timespec(2, 0)
    /\ t64_out.result =
          [tag |-> "Interrupted", val |-> Timespec(I64(0, 2), I64(0, 0))]

\* C28 (as stated): the older clock_nanosleep call that
\* clock_nanosleep_absolute issues after NOSYS is given the clock, the
\* deadline and the TIMER_ABSTIME flag of the time64 call it replaces.
C28_FallbackSleepsUntilDeadline ==
    (t64_pc = "done" /\ t64_in.op = "clock_nanosleep_absolute"
        /\ Len(t64_out.trace) = 2) =>
        LET new_call == t64_out.trace[1]
            old_call == t64_out.trace[2]
        IN  /\ new_call.flags = TIMER_ABSTIME
            /\ old_call.nr = "clock_nanosleep"
            /\ old_call.obj = new_call.obj
            /\ timespec_from_old(old_call.req) = new_call.req
            /\ old_call.flags = TIMER_ABSTIME

-----------------------------------------------------------------------------
(* The /proc caches: the order in which they fill, and termination.        *)

\* A thread inside a call goes on: it is scheduled again (its closure's
\* next step is taken), and a caller that waits for a running initializer
\* is woken when that initializer has ended.
Proceed(t) ==
    Wake(t) \/ CallProc(t) \/ CallProcSelf(t) \/ OpenCheck(t) \/ Store(t)

FairSpec == Spec /\ \A t \in Threads : SF_vars(Proceed(t))

\* The cells in the order of their dependencies: PROC, PROC_SELF,
\* PROC_SELF_FD.
CellRank == [Proc |-> 1, Pid |-> 2, Fd |-> 3]

\* PROC_SELF_FD holds a value only if PROC_SELF does, and PROC_SELF only
\* if PROC does.
FilledInOrder ==
    /\ cell["Fd"].fd # 0 => cell["Pid"].fd # 0
    /\ cell["Pid"].fd # 0 => cell["Proc"].fd # 0

\* Within a thread an initializer only calls into cells below its own: the
\* frames of a stack, innermost first, are of strictly rising rank.
NoReentry ==
    \A t \in Threads : \A i, j \in 1..Len(stack[t]) :
        i < j => CellRank[stack[t][i].k] < CellRank[stack[t][j].k]

\* Every call of proc_self_fd that has been started ends.
Terminates == \A t \in Threads : (stack[t] # <<>>) ~> (stack[t] = <<>>)

-----------------------------------------------------------------------------
(* Single wrappers of src/imp/linux_raw/syscalls.rs, each run once on what *)
(* the kernel answers to the calls it issues.                              *)

\* A u64 in four limbs: bits 63..44 (top), 43..28 (upper), 27..12 (mid)
\* and 11..0 (low).  The limbs above low are the number's page index.
U64(top, upper, mid, low) ==
    [top |-> top, upper |-> upper, mid |-> mid, low |-> low]

\* the largest 16-bit limb
LIMB_MAX == 65535

\* the largest low limb: 4096 - 1
LOW_MAX == 4095

\* offset / 4096, a u64 of 52 bits: top * 2^32 + upper * 2^16 + mid
div_4096(offset) ==
    [top |-> offset.top, upper |-> offset.upper, mid |-> offset.mid]

\* u64::try_into::<usize>() keeping the low 32 bits, as a cast does
try_into_usize_wrapping(v) == Ok([upper |-> v.upper, mid |-> v.mid])
\* u64::try_into::<usize>() where usize has 32 bits: the same value, or an
\* error when it is 2^32 or more
try_into_usize(v) ==
    IF v.top = 0 THEN Ok([upper |-> v.upper, mid |-> v.mid])
    ELSE Err("TryFromIntError")

\* pub(crate) unsafe fn mmap(addr, length, prot, flags, fd, offset), the
\* target_pointer_width = "32" arm; res is what mmap2 returns.
mmap(addr, length, prot, flags, fd, offset, res) ==
    LET scaled_offset == try_into_usize(div_4096(offset))
    IN  IF scaled_offset.tag = "Err" THEN Effect(<<>>, Err("INVAL"))
        ELSE Effect(<<KernelCall("mmap2", fd, flags,
                                 [addr |-> addr, length |-> length,
                                  prot |-> prot,
                                  pgoff |-> scaled_offset.val])>>,
                    res)

\* mmap2(2): the last argument is the offset into the file in units of
\* 4096 bytes.  The file offset at which the call maps.
MappedOffset(call) == U64(0, call.req.pgoff.upper, call.req.pgoff.mid, 0)

\* linux_raw_sys::v5_11::general::AT_EACCESS
AT_EACCESS == 512

\* fn _accessat(dirfd, pathname, mode) -> io::Result<()>
_accessat(dirfd, pathname, mode, res) ==
    Effect(<<KernelCall("faccessat", dirfd, 0,
                        [pathname |-> pathname, mode |-> mode])>>, res)

\* accessat, passing every flags value on to the kernel
accessat_unchecked(dirfd, path, access, flags, id, res) == _accessat(dirfd, path, access, res)
\* pub(crate) fn accessat(dirfd, path, access, flags) -> io::Result<()>
\* id is what getuid(), geteuid(), getgid() and getegid() return; res is
\* what faccessat returns.
accessat(dirfd, path, access, flags, id, res) ==
    IF \/ flags = 0
       \/ (flags = AT_EACCESS /\ id.uid = id.euid /\ id.gid = id.egid)
    THEN _accessat(dirfd, path, access, res)
    ELSE IF flags # AT_EACCESS THEN Effect(<<>>, Err("INVAL"))
    ELSE Effect(<<>>, Err("NOSYS"))

\* buffer.resize(new_len, 0_u8)
resize(buffer, new_len) ==
    [i \in 1..new_len |-> IF i <= Len(buffer) THEN buffer[i] ELSE 0]

\* readlinkat(2) on a link whose target is target: the kernel writes as
\* much of the target as the buffer holds and returns that many bytes.
sys_readlinkat(target, buffer) ==
    LET nread == IF Len(target) < Len(buffer) THEN Len(target)
                 ELSE Len(buffer)
    IN  [ret |-> Ok(nread),
         buffer |-> [i \in 1..Len(buffer) |->
                        IF i <= nread THEN target[i] ELSE buffer[i]]]

\* The body of the loop, returning the buffer whatever nread is.
readlinkat_body_no_retry(buffer, res) == IF res.tag = "Err" THEN [done |-> TRUE, result |-> res, buffer |-> buffer] ELSE [done |-> TRUE, result |-> Ok(resize(buffer, res.val)), buffer |-> buffer]
\* The body of the loop of _readlinkat, on the buffer the call has filled
\* and the result res of the call: the `?`, the return of the nread
\* bytes, or the doubled buffer of the next round.
readlinkat_body(buffer, res) ==
    IF res.tag = "Err" THEN [done |-> TRUE, result |-> res, buffer |-> buffer]
    ELSE IF res.val < Len(buffer)
    THEN [done |-> TRUE, result |-> Ok(resize(buffer, res.val)),
          buffer |-> buffer]
    ELSE [done |-> FALSE, result |-> res,
          buffer |-> resize(buffer, Len(buffer) * 2)]

-----------------------------------------------------------------------------
(* Socket addresses: encode (imp/libc/net/addr.rs), the name the kernel    *)
(* keeps for a bound socket, getsockname (imp/linux_raw/syscalls.rs) and   *)
(* the decoder.  A structure is the sequence of its bytes in memory.       *)

Zeros(n) == [i \in 1..n |-> 0]

\* an integer field of n bytes in memory, lowest byte first
to_ne_bytes(v, n) == [i \in 1..n |-> (v \div (256 ^ (i - 1))) % 256]

RECURSIVE from_ne_bytes(_)
from_ne_bytes(bs) ==
    IF bs = <<>> THEN 0 ELSE Head(bs) + 256 * from_ne_bytes(Tail(bs))

\* u16::to_be, as the two bytes it leaves in memory: the high byte first
to_be(port) == <<port \div 256, port % 256>>

\* u16::from_be of two bytes of memory
from_be(bs) == bs[1] * 256 + bs[2]

AF_UNIX == 1
AF_INET == 2
AF_INET6 == 10

SocketAddrV4(addr, port) == [family |-> "V4", addr |-> addr, port |-> port]

SocketAddrV6(addr, port, flowinfo, scope_id) ==
    [family |-> "V6", addr |-> addr, port |-> port, flowinfo |-> flowinfo,
     scope_id |-> scope_id]

SocketAddrUnix(path) == [family |-> "Unix", path |-> path]

\* sockaddr_in { sin_family, sin_port, sin_addr, sin_zero }: 16 bytes
SocketAddrV4_encode(a) ==
    to_ne_bytes(AF_INET, 2) \o to_be(a.port) \o a.addr \o Zeros(8)

\* sockaddr_in6 { sin6_family, sin6_port, sin6_flowinfo, sin6_addr,
\* sin6_scope_id }: 28 bytes
SocketAddrV6_encode(a) ==
    to_ne_bytes(AF_INET6, 2) \o to_be(a.port) \o to_ne_bytes(a.flowinfo, 4)
        \o a.addr \o to_ne_bytes(a.scope_id, 4)

\* sun_path.len(): 104 on netbsd, macos, ios, freebsd, openbsd; else 108
SUN_PATH_LEN(os) == IF os = "bsd" THEN 104 ELSE 108

\* the fields before sun_path: sun_family, after sun_len where there is one
SunHeader(os) ==
    IF os = "bsd" THEN <<2 + SUN_PATH_LEN(os), AF_UNIX>>
    ELSE to_ne_bytes(AF_UNIX, 2)

_new_off_by_one(path, os) == IF Len(path) > SUN_PATH_LEN(os) THEN Err("NAMETOOLONG") ELSE Ok(SocketAddrUnix(path))
_new(path, os) ==
    IF Len(path) + 1 > SUN_PATH_LEN(os) THEN Err("NAMETOOLONG")
    ELSE Ok(SocketAddrUnix(path))

\* SocketAddrUnix::new: path.into_c_str()? fails with INVAL on a NUL.
SocketAddrUnix_new(path, os) ==
    IF HasNul(path) THEN Err("INVAL") ELSE _new(path, os)

\* SocketAddrUnix::encode: sun_path[i] = b for each byte, then
\* sun_path[bytes.len()] = 0; an index of sun_path.len() or more panics.
SocketAddrUnix_encode(a, os) ==
    LET n == SUN_PATH_LEN(os)
        bytes == a.path
    IN  IF Len(bytes) >= n THEN Panic
        ELSE Ok(SunHeader(os)
                \o [i \in 1..n |-> IF i <= Len(bytes) THEN bytes[i] ELSE 0])

encode(a) ==
    CASE a.family = "V4" -> SocketAddrV4_encode(a)
      [] a.family = "V6" -> SocketAddrV6_encode(a)
      [] a.family = "Unix" -> SocketAddrUnix_encode(a, "linux").val

\* strlen of the sun_path of an encoded sockaddr_un
strlen(bs) ==
    IF HasNul(bs)
    THEN (CHOOSE i \in 1..Len(bs) :
              bs[i] = 0 /\ \A j \in 1..(i - 1) : bs[j] # 0) - 1
    ELSE Len(bs)

\* The name the kernel keeps for a socket bound to `addr`: the family's
\* structure, sin_zero cleared, a path up to and with its NUL.
KernelName(addr) ==
    LET family == from_ne_bytes(SubSeq(addr, 1, 2))
    IN  CASE family = AF_INET -> SubSeq(addr, 1, 8) \o Zeros(8)
          [] family = AF_INET6 -> addr
          [] family = AF_UNIX ->
                SubSeq(addr, 1, 2 + strlen(SubSeq(addr, 3, Len(addr))) + 1)

\* size_of::<sockaddr>(): sa_family and 14 bytes of sa_data
SOCKADDR_SIZE == 16

\* The getsockname call of the kernel: it copies what fits in the addrlen
\* bytes of storage and stores the name's whole length in addrlen.
sys_getsockname(name, storage) ==
    LET n == IF Len(name) < Len(storage) THEN Len(name) ELSE Len(storage)
    IN  [storage |-> [i \in 1..Len(storage) |->
                          IF i <= n THEN name[i] ELSE storage[i]],
         addrlen |-> Len(name)]

\* decode_sockaddr dispatches on the family it reads and takes the
\* family's structure at `storage`, as long as addrlen says; a byte past
\* the end of the storage it was handed is whatever lies there.
decode_sockaddr(storage, addrlen, beyond) ==
    LET mem(i) == IF i <= Len(storage) THEN storage[i] ELSE beyond
        bytes(a, b) == [i \in 1..(b - a + 1) |-> mem(a + i - 1)]
        family == from_ne_bytes(bytes(1, 2))
    IN  CASE family = AF_INET ->
                SocketAddrV4(bytes(5, 8), from_be(bytes(3, 4)))
          [] family = AF_INET6 ->
                SocketAddrV6(bytes(9, 24), from_be(bytes(3, 4)),
                             from_ne_bytes(bytes(5, 8)),
                             from_ne_bytes(bytes(25, 28)))
          [] family = AF_UNIX -> SocketAddrUnix(bytes(3, addrlen - 1))
          [] OTHER -> [family |-> "unknown"]

\* getsockname: addrlen and the uninitialized storage are those of a
\* sockaddr; the storage and the length the kernel reported are decoded.
getsockname(name, uninit) ==
    LET storage == [i \in 1..SOCKADDR_SIZE |-> uninit]
        k == sys_getsockname(name, storage)
        call == KernelCall("getsockname", 3, 0,
                           [addrlen |-> Len(storage), ret |-> k.addrlen])
    IN  Effect(<<call>>, Ok(decode_sockaddr(k.storage, k.addrlen, uninit)))

-----------------------------------------------------------------------------
(* The path operations without a directory handle and their at-forms      *)
(* (imp/linux_raw/syscalls.rs): the kernel call each issues, and a small   *)
(* file system on which the calls act.                                     *)

\* linux_raw_sys::general::AT_FDCWD
AT_FDCWD == -100

\* linux_raw_sys::general::AT_REMOVEDIR
AT_REMOVEDIR == 512

stat(filename) == KernelCall("fstatat", AT_FDCWD, 0, [path |-> filename])

imp_statat(dirfd, filename, flags) ==
    KernelCall("fstatat", dirfd, flags, [path |-> filename])

lstat_follow(filename) == KernelCall("fstatat", AT_FDCWD, 0, [path |-> filename])
lstat(filename) ==
    KernelCall("fstatat", AT_FDCWD, AT_SYMLINK_NOFOLLOW, [path |-> filename])

chmod(filename, mode) ==
    KernelCall("fchmodat", AT_FDCWD, 0, [path |-> filename, mode |-> mode])

imp_chmodat(dirfd, filename, mode) ==
    KernelCall("fchmodat", dirfd, 0, [path |-> filename, mode |-> mode])

readlink(path) == KernelCall("readlinkat", AT_FDCWD, 0, [path |-> path])

imp_readlinkat(dirfd, path) ==
    KernelCall("readlinkat", dirfd, 0, [path |-> path])

rename(oldname, newname) ==
    KernelCall("renameat", AT_FDCWD, 0,
               [path |-> oldname, new_dirfd |-> AT_FDCWD, new |-> newname])

imp_renameat(old_dirfd, oldname, new_dirfd, newname) ==
    KernelCall("renameat", old_dirfd, 0,
               [path |-> oldname, new_dirfd |-> new_dirfd, new |-> newname])

unlink(pathname) == KernelCall("unlinkat", AT_FDCWD, 0, [path |-> pathname])

imp_unlinkat(dirfd, pathname, flags) ==
    KernelCall("unlinkat", dirfd, flags, [path |-> pathname])

rmdir(pathname) ==
    KernelCall("unlinkat", AT_FDCWD, AT_REMOVEDIR, [path |-> pathname])

link(oldname, newname) ==
    KernelCall("linkat", AT_FDCWD, 0,
               [path |-> oldname, new_dirfd |-> AT_FDCWD, new |-> newname])

imp_linkat(old_dirfd, oldname, new_dirfd, newname, flags) ==
    KernelCall("linkat", old_dirfd, flags,
               [path |-> oldname, new_dirfd |-> new_dirfd, new |-> newname])

symlink(oldname, newname) ==
    KernelCall("symlinkat", AT_FDCWD, 0, [path |-> newname, old |-> oldname])

imp_symlinkat(oldname, dirfd, newname) ==
    KernelCall("symlinkat", dirfd, 0, [path |-> newname, old |-> oldname])

mkdir(pathname, mode) ==
    KernelCall("mkdirat", AT_FDCWD, 0, [path |-> pathname, mode |-> mode])

imp_mkdirat(dirfd, pathname, mode) ==
    KernelCall("mkdirat", dirfd, 0, [path |-> pathname, mode |-> mode])

\* The call of a non-at operation on the arguments a.
NonAtCall(op, a) ==
    CASE op = "stat" -> stat(a.path)
      [] op = "lstat" -> lstat(a.path)
      [] op = "chmod" -> chmod(a.path, a.mode)
      [] op = "unlink" -> unlink(a.path)
      [] op = "rmdir" -> rmdir(a.path)
      [] op = "link" -> link(a.path, a.new)
      [] op = "symlink" -> symlink(a.path, a.new)
      [] op = "mkdir" -> mkdir(a.path, a.mode)
      [] op = "rename" -> rename(a.path, a.new)
      [] op = "readlink" -> readlink(a.path)

\* The call of its at-form on the directory handle and the same arguments,
\* with the flags that select the operation.
AtCall(op, dirfd, a) ==
    CASE op = "stat" -> imp_statat(dirfd, a.path, 0)
      [] op = "lstat" -> imp_statat(dirfd, a.path, AT_SYMLINK_NOFOLLOW)
      [] op = "chmod" -> imp_chmodat(dirfd, a.path, a.mode)
      [] op = "unlink" -> imp_unlinkat(dirfd, a.path, 0)
      [] op = "rmdir" -> imp_unlinkat(dirfd, a.path, AT_REMOVEDIR)
      [] op = "link" -> imp_linkat(dirfd, a.path, dirfd, a.new, 0)
      [] op = "symlink" -> imp_symlinkat(a.path, dirfd, a.new)
      [] op = "mkdir" -> imp_mkdirat(dirfd, a.path, a.mode)
      [] op = "rename" -> imp_renameat(dirfd, a.path, dirfd, a.new)
      [] op = "readlink" -> imp_readlinkat(dirfd, a.path)

NonAtOps ==
    {"stat", "lstat", "chmod", "unlink", "rmdir", "link", "symlink", "mkdir",
     "rename", "readlink"}

\* A file system of two directories, the current one and another, with
\* the same two names in each.
Names == {"a", "b"}

NoFile == [kind |-> "none", mode |-> 0, target |-> "a"]

File(kind, mode, target) == [kind |-> kind, mode |-> mode, target |-> target]

\* the directory a handle names
DirOf(dirfd) == IF dirfd = AT_FDCWD THEN "cwd" ELSE "other"

\* The kernel's answer to a call and the file system it leaves.
FsKernel(fs, c) ==
    LET d == DirOf(c.obj)
        e == fs[d][c.req.path]
        followed == IF e.kind = "symlink" THEN e.target ELSE c.req.path
        fail(err) == [ret |-> Err(err), fs |-> fs]
        done(v, f) == [ret |-> Ok(v), fs |-> f]
        set(dir, name, entry) == [fs EXCEPT ![dir][name] = entry]
    IN  CASE c.nr = "fstatat" ->
                LET n == IF c.flags = AT_SYMLINK_NOFOLLOW THEN c.req.path
                         ELSE followed
                    s == fs[d][n]
                IN  IF s.kind = "none" THEN fail("NOENT")
                    ELSE done([kind |-> s.kind, mode |-> s.mode], fs)
          [] c.nr = "fchmodat" ->
                IF fs[d][followed].kind = "none" THEN fail("NOENT")
                ELSE done("()", [fs EXCEPT ![d][followed].mode = c.req.mode])
          [] c.nr = "readlinkat" ->
                IF e.kind = "none" THEN fail("NOENT")
                ELSE IF e.kind # "symlink" THEN fail("INVAL")
                ELSE done(e.target, fs)
          [] c.nr = "unlinkat" ->
                IF e.kind = "none" THEN fail("NOENT")
                ELSE IF c.flags = AT_REMOVEDIR /\ e.kind # "dir"
                THEN fail("NOTDIR")
                ELSE IF c.flags # AT_REMOVEDIR /\ e.kind = "dir"
                THEN fail("ISDIR")
                ELSE done("()", set(d, c.req.path, NoFile))
          [] c.nr = "mkdirat" ->
                IF e.kind # "none" THEN fail("EXIST")
                ELSE done("()", set(d, c.req.path,
                                    File("dir", c.req.mode, "a")))
          [] c.nr = "symlinkat" ->
                IF e.kind # "none" THEN fail("EXIST")
                ELSE done("()", set(d, c.req.path,
                                    File("symlink", 1, c.req.old)))
          [] c.nr = "linkat" ->
                LET nd == DirOf(c.req.new_dirfd)
                IN  IF e.kind = "none" THEN fail("NOENT")
                    ELSE IF e.kind = "dir" THEN fail("PERM")
                    ELSE IF fs[nd][c.req.new].kind # "none" THEN fail("EXIST")
                    ELSE done("()", set(nd, c.req.new, e))
          [] c.nr = "renameat" ->
                LET nd == DirOf(c.req.new_dirfd)
                    t == fs[nd][c.req.new]
                IN  IF e.kind = "none" THEN fail("NOENT")
                    ELSE IF nd = d /\ c.req.new = c.req.path THEN done("()", fs)
                    ELSE IF t.kind = "dir" /\ e.kind # "dir" THEN fail("ISDIR")
                    ELSE IF t.kind \notin {"none", "dir"} /\ e.kind = "dir"
                    THEN fail("NOTDIR")
                    ELSE done("()", [fs EXCEPT ![d][c.req.path] = NoFile,
                                               ![nd][c.req.new] = e])

-----------------------------------------------------------------------------
(* is_read_write (imp/linux_raw/syscalls.rs): the access mode of the       *)
(* descriptor, then a probe of each side that the mode has.                *)

\* One probe of the descriptor, as a kernel call.
Probe(nr, res) == KernelCall(nr, 3, "DONTWAIT", [ret |-> res])

is_read_write_no_peek(mode, recv, send) ==
    IF mode.tag = "Err" THEN Effect(<<>>, mode)
    ELSE LET peeked == mode.val.read
             recv_err == peeked /\ recv.tag = "Err"
             fatal == recv_err /\ recv.val \notin {"AGAIN", "WOULDBLOCK", "NOTSOCK"}
             sent == mode.val.write /\ ~(recv_err /\ recv.val = "NOTSOCK")
             write == IF sent /\ send = Err("PIPE") THEN FALSE ELSE mode.val.write
             calls == (IF peeked THEN <<Probe("recv", recv)>> ELSE <<>>) \o (IF sent /\ ~fatal THEN <<Probe("send", send)>> ELSE <<>>)
         IN  IF fatal THEN Effect(calls, recv)
             ELSE IF sent /\ send.tag = "Err" /\ send.val \notin {"AGAIN", "WOULDBLOCK", "NOTSOCK", "PIPE"} THEN Effect(calls, send)
             ELSE Effect(calls, Ok([read |-> mode.val.read, write |-> write]))
\* mode is what _is_file_read_write(fd) returns; recv and send are what the
\* kernel answers to recv(fd, 1 byte, PEEK | DONTWAIT) and to
\* send(fd, 0 bytes, DONTWAIT).
is_read_write(mode, recv, send) ==
    IF mode.tag = "Err" THEN Effect(<<>>, mode)
    ELSE LET peeked == mode.val.read
             recv_err == peeked /\ recv.tag = "Err"
             fatal == recv_err
                      /\ recv.val \notin {"AGAIN", "WOULDBLOCK", "NOTSOCK"}
             not_socket == recv_err /\ recv.val = "NOTSOCK"
             read == IF peeked /\ recv = Ok(0) THEN FALSE ELSE mode.val.read
             sent == mode.val.write /\ ~not_socket
             write == IF sent /\ send = Err("PIPE") THEN FALSE
                      ELSE mode.val.write
             calls == (IF peeked THEN <<Probe("recv", recv)>> ELSE <<>>)
                      \o (IF sent /\ ~fatal THEN <<Probe("send", send)>>
                          ELSE <<>>)
         IN  IF fatal THEN Effect(calls, recv)
             ELSE IF sent /\ send.tag = "Err"
                     /\ send.val \notin {"AGAIN", "WOULDBLOCK", "NOTSOCK",
                                         "PIPE"}
             THEN Effect(calls, send)
             ELSE Effect(calls, Ok([read |-> read, write |-> write]))

-----------------------------------------------------------------------------
(* The wrapper specification: one wrapper is run on inputs drawn from      *)
(* small sets around the cases its code distinguishes.                     *)

\* Offsets: aligned and not, below and above 2^44 (page index 2^32).
Offsets ==
    {U64(top, upper, mid, low) :
        top \in {0, 1}, upper \in {0, LIMB_MAX}, mid \in {0, 1, LIMB_MAX},
        low \in {0, 1, LOW_MAX}}

MmapRets == {Ok("addr"), Err("NOMEM"), Err("BADF")}

MmapInputs ==
    {[op |-> "mmap", length |-> length, offset |-> offset, ret |-> r] :
        length \in {1, 8192}, offset \in Offsets, r \in MmapRets}

\* The real and effective ids of the process: equal, or one of the
\* effective ids differs (a set-id program).
ProcessIds ==
    {[uid |-> 1000, euid |-> e, gid |-> 1000, egid |-> g] :
        e \in {1000, ROOT}, g \in {1000, ROOT}}

\* AtFlags values: empty, EACCESS, SYMLINK_NOFOLLOW and both.
AccessFlags ==
    {0, AT_EACCESS, AT_SYMLINK_NOFOLLOW, AT_EACCESS + AT_SYMLINK_NOFOLLOW}

AccessInputs ==
    {[op |-> "accessat", access |-> a, flags |-> f, id |-> i, ret |-> r] :
        a \in {"READ_OK", "EXISTS"}, f \in AccessFlags, i \in ProcessIds,
        r \in {Ok("()"), Err("ACCES"), Err("NOENT")}}

\* how many times the buffer of readlinkat has to double for the longest
\* target
MaxDoublings == 2

\* Target lengths: empty, one byte, and around each buffer size.
TargetLens ==
    {0, 1} \cup {SIZE * 2^i + d : i \in 0..MaxDoublings, d \in {-1, 0, 1}}

ReadlinkInputs ==
    {[op |-> "readlinkat", target |-> [i \in 1..n |-> Fill(i)]] :
        n \in TargetLens}

\* what uninitialized memory, or memory past an object, may hold
StrayBytes == {0, 85}

Ports == {0, 80, 258, 65535}

V4Addrs ==
    {SocketAddrV4(a, p) : a \in {<<127, 0, 0, 1>>, <<10, 0, 2, 15>>},
                          p \in Ports}

V6Addrs ==
    {SocketAddrV6(a, p, f, s) :
        a \in {Zeros(15) \o <<1>>, [i \in 1..16 |-> 31 + i]},
        p \in {0, 258}, f \in {0, 7}, s \in {0, 3}}

\* NUL-free paths of the given lengths
PathsOfLen(lens) == {[i \in 1..n |-> Fill(i)] : n \in lens}

\* Paths that fit in sa_data with their NUL, that do not, and the longest.
UnixAddrs ==
    {SocketAddrUnix_new(p, "linux").val :
        p \in PathsOfLen({1, SOCKADDR_SIZE - 3, SOCKADDR_SIZE - 2,
                          SUN_PATH_LEN("linux") - 1})}

BindInputs ==
    {[op |-> "bind", addr |-> a] : a \in V4Addrs \cup V6Addrs \cup UnixAddrs}

\* Paths around both sizes of sun_path, each also with a NUL inside.
UnixNewPaths ==
    LET plain == PathsOfLen({0, 1} \cup
                     {SUN_PATH_LEN(os) + d : os \in {"linux", "bsd"},
                                             d \in {-2, -1, 0, 1}})
    IN  plain \cup {[p EXCEPT ![1] = 0] : p \in plain \ {<<>>}}

UnixNewInputs ==
    {[op |-> "unix_new", path |-> p, os |-> os] :
        p \in UnixNewPaths, os \in {"linux", "bsd"}}

\* File systems: in the current directory a is absent, a file, a
\* directory or a link to b, and b is absent, a file or a directory; the
\* other directory holds other things under the same names.
FileSystems ==
    {[cwd |-> [a |-> ea, b |-> eb],
      other |-> [a |-> File("dir", 1, "a"), b |-> File("symlink", 1, "a")]] :
        ea \in {NoFile, File("file", 0, "a"), File("dir", 0, "a"),
                File("symlink", 1, "b")},
        eb \in {NoFile, File("file", 1, "a"), File("dir", 1, "a")}}

NonAtInputs ==
    {[op |-> "nonat", fn |-> fn, path |-> p, new |-> n, mode |-> m,
      fs |-> fs] :
        fn \in NonAtOps, p \in Names, n \in Names, m \in {0, 1},
        fs \in FileSystems}

\* Access modes: neither side (O_PATH), one side, both, or no answer.
AccessModes ==
    {Ok([read |-> r, write |-> w]) : r \in BOOLEAN, w \in BOOLEAN}
        \cup {Err("BADF")}

\* What a socket answers to the peek: shut down, a byte, nothing yet, or
\* an error.
SocketRecvs ==
    {Ok(0), Ok(1), Err("AGAIN"), Err("WOULDBLOCK"), Err("NOTCONN"),
     Err("CONNRESET")}

\* What a socket answers to the empty send.
SocketSends ==
    {Ok(0), Err("AGAIN"), Err("WOULDBLOCK"), Err("PIPE"), Err("NOTCONN"),
     Err("CONNRESET")}

\* A socket is open for both sides; any other descriptor has one of the
\* access modes and answers both probes with NOTSOCK.
ReadWriteInputs ==
    {[op |-> "is_read_write", socket |-> TRUE,
      mode |-> Ok([read |-> TRUE, write |-> TRUE]), recv |-> r, send |-> s] :
        r \in SocketRecvs, s \in SocketSends}
    \cup {[op |-> "is_read_write", socket |-> FALSE, mode |-> m,
           recv |-> Err("NOTSOCK"), send |-> Err("NOTSOCK")] :
             m \in AccessModes}

SysInputs ==
    MmapInputs \cup AccessInputs \cup ReadlinkInputs \cup BindInputs
        \cup UnixNewInputs \cup NonAtInputs \cup ReadWriteInputs

SysInit ==
    /\ sys_in \in SysInputs
    /\ sys_pc = "ready"
    /\ sys_buffer = <<>>
    /\ sys_out = Effect(<<>>, Ok("()"))
    /\ TimerIdle
    /\ T64Idle
    /\ feature = "std"
    /\ ids = [uid |-> 1000, gid |-> 1000]
    /\ ProcIdle
    /\ PathIdle
    /\ ValIdle

SysDone(op, out) ==
    /\ sys_pc = "ready"
    /\ sys_in.op = op
    /\ sys_pc' = "done"
    /\ sys_out' = out
    /\ UNCHANGED <<sys_in, sys_buffer, timerVars, t64Vars, pathVars, procVars,
                   valVars>>

Call_mmap ==
    SysDone("mmap",
            mmap("null", sys_in.length, "READ", "SHARED", 3, sys_in.offset,
                 sys_in.ret))

Call_accessat ==
    SysDone("accessat",
            accessat(3, "path", sys_in.access, sys_in.flags, sys_in.id,
                     sys_in.ret))

\* _readlinkat starts: buffer.clear(); buffer.resize(256, 0_u8).
Call_readlinkat ==
    /\ sys_pc = "ready"
    /\ sys_in.op = "readlinkat"
    /\ sys_pc' = "loop"
    /\ sys_buffer' = resize(<<>>, SIZE)
    /\ UNCHANGED <<sys_in, sys_out, timerVars, t64Vars, pathVars, procVars,
                   valVars>>

\* One round of the loop: the kernel call, which fails or reads the
\* link, and the body of the loop.
Loop_readlinkat ==
    /\ sys_pc = "loop"
    /\ \E k \in {[ret |-> Err(e), buffer |-> sys_buffer] :
                     e \in {"NOENT", "INVAL"}}
                \cup {sys_readlinkat(sys_in.target, sys_buffer)} :
          LET b == readlinkat_body(k.buffer, k.ret)
              call == KernelCall("readlinkat", 3, 0,
                                 [buf_len |-> Len(sys_buffer), ret |-> k.ret])
          IN  /\ sys_buffer' = b.buffer
              /\ sys_pc' = IF b.done THEN "done" ELSE "loop"
              /\ sys_out' = Effect(Append(sys_out.trace, call), b.result)
    /\ UNCHANGED <<sys_in, timerVars, t64Vars, pathVars, procVars, valVars>>

\* SocketAddrUnix::new, and encode of the address it constructed.
Call_unix_new ==
    LET r == SocketAddrUnix_new(sys_in.path, sys_in.os)
        encoded == IF r.tag = "Ok"
                   THEN SocketAddrUnix_encode(r.val, sys_in.os)
                   ELSE [tag |-> "None", val |-> "()"]
    IN  SysDone("unix_new", Effect(<<>>, [new |-> r, encoded |-> encoded]))

\* bind_v4, bind_v6, bind_unix: the encoded address and its size go to
\* the kernel, which keeps the name in sys_buffer or refuses.
Call_bind ==
    /\ sys_pc = "ready"
    /\ sys_in.op = "bind"
    /\ \E r \in {Ok("()"), Err("ADDRINUSE")} :
          LET addr == encode(sys_in.addr)
              call == KernelCall("bind", 3, 0,
                                 [addr |-> addr, addrlen |-> Len(addr),
                                  ret |-> r])
          IN  /\ sys_out' = Effect(<<call>>, r)
              /\ sys_pc' = IF r.tag = "Ok" THEN "bound" ELSE "done"
              /\ sys_buffer' = IF r.tag = "Ok" THEN KernelName(addr) ELSE <<>>
    /\ UNCHANGED <<sys_in, timerVars, t64Vars, pathVars, procVars, valVars>>

\* getsockname on the bound socket.
Call_getsockname ==
    /\ sys_pc = "bound"
    /\ sys_pc' = "done"
    /\ \E uninit \in StrayBytes :
          LET e == getsockname(sys_buffer, uninit)
          IN  sys_out' = Effect(sys_out.trace \o e.trace, e.result)
    /\ UNCHANGED <<sys_in, sys_buffer, timerVars, t64Vars, pathVars,
                   procVars, valVars>>

\* A non-at operation, and its at-form with the handle of the current
\* directory, each on the file system of the input.
Call_nonat ==
    LET plain == NonAtCall(sys_in.fn, sys_in)
        at == AtCall(sys_in.fn, AT_FDCWD, sys_in)
    IN  SysDone("nonat",
                Effect(<<plain, at>>,
                       [plain |-> FsKernel(sys_in.fs, plain),
                        at |-> FsKernel(sys_in.fs, at)]))

Call_is_read_write ==
    SysDone("is_read_write",
            is_read_write(sys_in.mode, sys_in.recv, sys_in.send))

SysNext ==
    \/ Call_is_read_write
    \/ Call_nonat
    \/ Call_mmap
    \/ Call_accessat
    \/ Call_readlinkat
    \/ Loop_readlinkat
    \/ Call_unix_new
    \/ Call_bind
    \/ Call_getsockname

SysSpec == SysInit /\ [][SysNext]_vars

\* A wrapper that has been called runs on.
FairSysSpec == SysSpec /\ WF_vars(SysNext)

-----------------------------------------------------------------------------
(* The wrappers: the claims.                                               *)

\* C21 (as stated): 32-bit mmap either fails with INVAL before any kernel
\* call, which it does when the page index does not fit in usize, or
\* issues one mmap2 call that maps the file at exactly the offset
\* requested (page index * 4096 = offset) and returns its result.
C21_MmapOffsetWithoutLoss ==
    (sys_pc = "done" /\ sys_in.op = "mmap") =>
        IF sys_in.offset.top # 0
        THEN sys_out = Effect(<<>>, Err("INVAL"))
        ELSE /\ Len(sys_out.trace) = 1
             /\ sys_out.trace[1].nr = "mmap2"
             /\ MappedOffset(sys_out.trace[1]) = sys_in.offset
             /\ sys_out.result = sys_in.ret

\* C22: accessat issues the faccessat call, once, and returns its result
\* when flags is empty or when flags is exactly AT_EACCESS and the real
\* and effective user and group ids are equal; with flags exactly
\* AT_EACCESS and differing ids it returns NOSYS, and with any other flags
\* INVAL, both without issuing the call.
C22_AccessatFlags ==
    (sys_pc = "done" /\ sys_in.op = "accessat") =>
        LET f == sys_in.flags
            same == /\ sys_in.id.uid = sys_in.id.euid
                    /\ sys_in.id.gid = sys_in.id.egid
        IN  IF f = 0 \/ (f = AT_EACCESS /\ same)
            THEN /\ Len(sys_out.trace) = 1
                 /\ sys_out.trace[1].nr = "faccessat"
                 /\ sys_out.trace[1].req.mode = sys_in.access
                 /\ sys_out.result = sys_in.ret
            ELSE IF f = AT_EACCESS
            THEN sys_out = Effect(<<>>, Err("NOSYS"))
            ELSE sys_out = Effect(<<>>, Err("INVAL"))

\* accessat with AT_EACCESS in a process whose effective user id differs
\* from its real one: NOSYS, and no call.
C22_Witness ==
    /\ sys_pc = "done"
    /\ sys_in.op = "accessat"
    /\ sys_in.flags = AT_EACCESS
    /\ sys_in.id.uid # sys_in.id.euid
    /\ sys_out = Effect(<<>>, Err("NOSYS"))

\* The calls of a readlinkat that has ended.
ReadlinkCalls == sys_out.trace

\* C29: readlinkat starts with a buffer of 256 bytes and doubles it for
\* each further call; every call but the last filled its buffer
\* completely; it returns the first kernel error at once, and otherwise
\* the nread bytes of the last call, nread being less than the buffer,
\* which are the complete target; and every call of it ends.
C29_ReadlinkComplete ==
    /\ [](sys_in.op = "readlinkat" =>
            /\ \A i \in 1..Len(ReadlinkCalls) :
                  /\ ReadlinkCalls[i].req.buf_len = SIZE * 2^(i - 1)
                  /\ (i < Len(ReadlinkCalls) \/ sys_pc = "loop") =>
                        ReadlinkCalls[i].req.ret =
                           Ok(ReadlinkCalls[i].req.buf_len)
            /\ sys_pc = "done" =>
                  LET last == ReadlinkCalls[Len(ReadlinkCalls)].req
                  IN  /\ Len(ReadlinkCalls) >= 1
                      /\ last.ret.tag = "Err" => sys_out.result = last.ret
                      /\ last.ret.tag = "Ok" =>
                            /\ last.ret.val < last.buf_len
                            /\ sys_out.result.tag = "Ok"
                            /\ Len(sys_out.result.val) = last.ret.val
                            /\ sys_out.result.val = sys_in.target)
    /\ (sys_in.op = "readlinkat") ~> (sys_pc = "done")

\* A target of 513 bytes: calls with buffers of 256, 512 and 1024 bytes,
\* and the whole target returned.
C29_Witness ==
    /\ sys_pc = "done"
    /\ sys_in.op = "readlinkat"
    /\ Len(sys_in.target) = 2 * SIZE + 1
    /\ Len(ReadlinkCalls) = 3
    /\ sys_out.result = Ok(sys_in.target)

C24_NameTooLongIffNoFit ==
    (sys_pc = "done" /\ sys_in.op = "unix_new") =>
        LET r == sys_out.result.new
        IN  /\ r = Err("NAMETOOLONG") <=>
                  Len(sys_in.path) + 1 > SUN_PATH_LEN(sys_in.os)
            /\ HasNul(sys_in.path) => r = Err("INVAL")

\* C24, amended: a path with a NUL gives INVAL; a path without one gives
\* NAMETOOLONG exactly when it and its NUL do not fit in sun_path; every
\* constructed address has a path shorter than sun_path, and encode writes
\* the path, one NUL and nothing else into sun_path without a panic.
C24_UnixNewValidates ==
    (sys_pc = "done" /\ sys_in.op = "unix_new") =>
        LET r == sys_out.result.new
            e == sys_out.result.encoded
            p == sys_in.path
            n == SUN_PATH_LEN(sys_in.os)
            h == Len(SunHeader(sys_in.os))
        IN  /\ HasNul(p) => r = Err("INVAL")
            /\ ~HasNul(p) => (r = Err("NAMETOOLONG") <=> Len(p) + 1 > n)
            /\ r.tag = "Err" => r.val \in {"INVAL", "NAMETOOLONG"}
            /\ r.tag = "Ok" =>
                  /\ r.val.path = p
                  /\ Len(p) < n
                  /\ e.tag = "Ok"
                  /\ Len(e.val) = h + n
                  /\ SubSeq(e.val, h + 1, h + Len(p)) = p
                  /\ \A i \in (h + Len(p) + 1)..(h + n) : e.val[i] = 0

\* The longest path that fits was constructed and encoded.
C24_Witness ==
    /\ sys_pc = "done"
    /\ sys_in.op = "unix_new"
    /\ Len(sys_in.path) + 1 = SUN_PATH_LEN(sys_in.os)
    /\ sys_out.result.new.tag = "Ok"
    /\ sys_out.result.encoded.tag = "Ok"


\* C26: each non-at operation returns what its at-form returns when that
\* is called with the handle of the current directory and the matching
\* flags, and leaves the same file system.
C26_NonAtEqualsAt ==
    (sys_pc = "done" /\ sys_in.op = "nonat") =>
        /\ sys_out.result.plain.ret = sys_out.result.at.ret
        /\ sys_out.result.plain.fs = sys_out.result.at.fs
        /\ sys_out.trace[1] = sys_out.trace[2]

\* lstat of a link to a file answers with the link, as statat with
\* AT_SYMLINK_NOFOLLOW does.
C26_Witness ==
    /\ sys_pc = "done"
    /\ sys_in.op = "nonat"
    /\ sys_in.fn = "lstat"
    /\ sys_in.fs["cwd"][sys_in.path].kind = "symlink"
    /\ sys_in.fs["cwd"]["b"].kind = "file"
    /\ sys_out.result.plain.ret.tag = "Ok"
    /\ sys_out.result.plain.ret.val.kind = "symlink"
    /\ sys_out.result.at = sys_out.result.plain

\* the probes is_read_write made, by the call's name
Probed(nr) == \E i \in 1..Len(sys_out.trace) : sys_out.trace[i].nr = nr

\* C27: is_read_write reports no side the access mode lacks; for a socket
\* a peek that returns 0 gives read = false and a send that returns EPIPE
\* gives write = false, while EAGAIN/EWOULDBLOCK leave the side as the
\* access mode has it; a descriptor that is not a socket gets the access
\* mode unchanged; any other error of a probe is returned.
C27_IsReadWrite ==
    (sys_pc = "done" /\ sys_in.op = "is_read_write"
        /\ sys_in.mode.tag = "Ok") =>
        LET m == sys_in.mode.val
            r == sys_out.result
            again == {Err("AGAIN"), Err("WOULDBLOCK")}
            handled == again \cup {Err("NOTSOCK")}
        IN  /\ r.tag = "Ok" =>
                  /\ r.val.read => m.read
                  /\ r.val.write => m.write
            /\ (Probed("recv") /\ sys_in.recv = Ok(0) /\ r.tag = "Ok") =>
                  ~r.val.read
            /\ (Probed("send") /\ sys_in.send = Err("PIPE")) =>
                  (r.tag = "Ok" /\ ~r.val.write)
            /\ (sys_in.recv \in again /\ r.tag = "Ok") => r.val.read = m.read
            /\ (sys_in.send \in again /\ r.tag = "Ok") =>
                  r.val.write = m.write
            /\ ~sys_in.socket => r = Ok(m)
            /\ (Probed("recv") /\ sys_in.recv.tag = "Err"
                  /\ sys_in.recv \notin handled) => r = sys_in.recv
            /\ (Probed("send") /\ sys_in.send.tag = "Err"
                  /\ sys_in.send \notin handled \cup {Err("PIPE")}) =>
                  r = sys_in.send
            /\ sys_in.socket => (Probed("recv") /\ (r.tag = "Ok" => Probed("send")))

\* A socket whose two sides are shut down: the peek returned 0, the send
\* returned EPIPE, and neither side is reported.
C27_Witness ==
    /\ sys_pc = "done"
    /\ sys_in.op = "is_read_write"
    /\ sys_in.socket
    /\ sys_in.recv = Ok(0)
    /\ sys_in.send = Err("PIPE")
    /\ Probed("recv")
    /\ Probed("send")
    /\ sys_out.result = Ok([read |-> FALSE, write |-> FALSE])

====
